---- MODULE Spec2Model ----
(***************************************************************************)
(* DazzloDocs file-conversion service: the format registry, the validator, *)
(* the conversion engine (utils/converter.py and the embedded engine of    *)
(* app.py) and the storage primitives they act on.                         *)
(*                                                                         *)
(* Strings are sequences of tokens.  A token is a piece of text that is    *)
(* never split by any operation of the program ("pdf", ".", "/", "in").    *)
(* Paths and file names are built from the tokens below only, and no token *)
(* is a substring of another or of two adjacent ones, so substring search, *)
(* replacement, suffix extraction and lower-casing on token sequences      *)
(* agree with the same operations on the Python strings.                   *)
(***************************************************************************)
EXTENDS Integers, Sequences, FiniteSets, TLC

VARIABLES
    conv,   \* the FileConverter instance of utils/converter.py (its fields)
    fs,     \* the file system: a function from the existing paths to contents
    last,   \* the last operation: its arguments and what it returned
    prev,   \* the operation before the last one
    now,    \* the clock, in seconds
    sweep,  \* the cleanup cycle in progress, if any
    req,    \* the request handler's calls in progress, if any
    mgr     \* the background cleanup: the manager's fields and its threads

vars == <<conv, fs, last, prev, now, sweep, req, mgr>>

-----------------------------------------------------------------------------
(* Strings and paths *)

\* Python's None, passed where a string is expected.
None == <<"<None>">>

\* str.lower(), token by token; the tokens with upper-case letters are listed.
Lower(s) ==
    [i \in DOMAIN s |->
        IF s[i] = "PDF" THEN "pdf"
        ELSE IF s[i] = "TXT" THEN "txt"
        ELSE IF s[i] = "Report" THEN "report"
        ELSE s[i]]

\* str.rfind(tok) over s[1..i]: the greatest index holding tok, 0 when none.
RECURSIVE RFind(_, _, _)
RFind(s, tok, i) ==
    IF i = 0 THEN 0
    ELSE IF s[i] = tok THEN i
    ELSE RFind(s, tok, i - 1)

\* os.path.basename / Path(p).name: what follows the last separator.
Basename(p) == SubSeq(p, RFind(p, "/", Len(p)) + 1, Len(p))

\* Path(p).suffix: from the last dot of the name on, unless that dot opens or
\* closes the name.
PathSuffix(p) ==
    LET name == Basename(p)
        i == RFind(name, ".", Len(name))
    IN  IF 1 < i /\ i < Len(name) THEN SubSeq(name, i, Len(name)) ELSE <<>>

\* Path(p).suffix[1:].lower()
ExtOf(p) ==
    LET suf == PathSuffix(p)
    IN  IF suf = <<>> THEN <<>> ELSE Lower(Tail(suf))

\* pat in s (substring test)
Contains(s, pat) ==
    \E i \in 1..(Len(s) - Len(pat) + 1) : SubSeq(s, i, i + Len(pat) - 1) = pat

\* str.replace(old, new): every non-overlapping occurrence, left to right.
RECURSIVE Replace(_, _, _)
Replace(s, old, new) ==
    IF Len(s) < Len(old) \/ old = <<>> THEN s
    ELSE IF SubSeq(s, 1, Len(old)) = old
         THEN new \o Replace(SubSeq(s, Len(old) + 1, Len(s)), old, new)
         ELSE <<Head(s)>> \o Replace(Tail(s), old, new)

\* os.path.join(folder, filename)
PathJoin(folder, filename) == <<folder, "/">> \o filename

UPLOAD_FOLDER == "uploads"
CONVERTED_FOLDER == "converted"

-----------------------------------------------------------------------------
(* The file system *)

NoFiles == <<>>

Exists(files, p) == p \in DOMAIN files

\* Creating or overwriting the file at p.
WriteFile(files, p, content) ==
    [q \in (DOMAIN files) \cup {p} |-> IF q = p THEN content ELSE files[q]]

\* os.remove(p)
RemoveFile(files, p) == [q \in (DOMAIN files) \ {p} |-> files[q]]

(* File contents.  A CSV text is the sequence of its rows as a csv reader     *)
(* that sees the raw bytes parses them (each row a sequence of field values,  *)
(* each value a sequence of characters); a JSON text is its document tree;    *)
(* the output of a routine that is not modelled character by character is     *)
(* "made" by that routine, and "partial" when the routine failed after it had *)
(* created the file.                                                          *)
Blob == [t |-> "blob"]
XmlText == [t |-> "xml"]
CsvText(rows) == [t |-> "csv", rows |-> rows]
JsonText(doc) == [t |-> "json", doc |-> doc]
Made(routine) == [t |-> "made", by |-> routine]
Partial(routine) == [t |-> "partial", by |-> routine]

-----------------------------------------------------------------------------
(* Python values and JSON documents *)

PyNone == [k |-> "none"]
PyStr(s) == [k |-> "str", s |-> s]
PyList(items) == [k |-> "list", items |-> items]
\* A dict keeps insertion order: a sequence of <<key, value>> pairs.
PyDict(pairs) == [k |-> "dict", pairs |-> pairs]

JNull == [k |-> "null"]
JString(s) == [k |-> "string", s |-> s]
JArray(items) == [k |-> "array", items |-> items]
JObject(members) == [k |-> "object", members |-> members]

\* The key None of a dict, which csv.DictReader uses for surplus fields.
NoneKey == <<"<NoneKey>">>

Keys(pairs) == [i \in DOMAIN pairs |-> pairs[i][1]]

KeySet(pairs) == {pairs[i][1] : i \in DOMAIN pairs}

\* d[key]
DictGet(pairs, key) == pairs[CHOOSE i \in DOMAIN pairs : pairs[i][1] = key][2]

\* d[key] = value: an existing key keeps its place, a new key goes last.
DictSet(pairs, key, value) ==
    IF key \in KeySet(pairs)
    THEN [i \in DOMAIN pairs |->
            IF pairs[i][1] = key THEN <<key, value>> ELSE pairs[i]]
    ELSE Append(pairs, <<key, value>>)

\* json.dump: a None key is written as the member name "null", None as null,
\* a str as a string.
RECURSIVE JsonDump(_)
JsonDump(v) ==
    IF v.k = "none" THEN JNull
    ELSE IF v.k = "str" THEN JString(v.s)
    ELSE IF v.k = "list"
         THEN JArray([i \in DOMAIN v.items |-> JsonDump(v.items[i])])
    ELSE JObject([i \in DOMAIN v.pairs |->
            << IF v.pairs[i][1] = NoneKey THEN <<"null">> ELSE v.pairs[i][1],
               JsonDump(v.pairs[i][2]) >>])

\* dict(members): a repeated member name keeps its first place and last value.
RECURSIVE DictOf(_, _)
DictOf(members, acc) ==
    IF members = <<>> THEN acc
    ELSE DictOf(Tail(members), DictSet(acc, Head(members)[1], Head(members)[2]))

\* json.load
RECURSIVE JsonLoad(_)
JsonLoad(j) ==
    IF j.k = "null" THEN PyNone
    ELSE IF j.k = "string" THEN PyStr(j.s)
    ELSE IF j.k = "array"
         THEN PyList([i \in DOMAIN j.items |-> JsonLoad(j.items[i])])
    ELSE PyDict(DictOf([i \in DOMAIN j.members |->
            <<j.members[i][1], JsonLoad(j.members[i][2])>>], <<>>))

-----------------------------------------------------------------------------
(* The csv module *)

\* Reading a text file opened without newline='': universal newlines turn
\* every CR LF and every lone CR into LF before the csv reader sees it.
RECURSIVE UniversalNewlines(_)
UniversalNewlines(s) ==
    IF s = <<>> THEN <<>>
    ELSE IF Head(s) = "CR"
         THEN IF Len(s) >= 2 /\ s[2] = "LF"
              THEN <<"LF">> \o UniversalNewlines(SubSeq(s, 3, Len(s)))
              ELSE <<"LF">> \o UniversalNewlines(Tail(s))
    ELSE <<Head(s)>> \o UniversalNewlines(Tail(s))

\* The rows a csv reader yields from a file opened in text mode with the
\* default newline handling.
TextModeRows(rows) ==
    [i \in DOMAIN rows |->
        [j \in DOMAIN rows[i] |-> UniversalNewlines(rows[i][j])]]

\* dict(zip(fieldnames, row)), built left to right.
RECURSIVE ZipDict(_, _, _, _)
ZipDict(fieldnames, row, i, acc) ==
    IF i > Len(fieldnames) \/ i > Len(row) THEN acc
    ELSE ZipDict(fieldnames, row, i + 1,
                 DictSet(acc, fieldnames[i], PyStr(row[i])))

\* for key in fieldnames[lr:]: d[key] = restval (None)
RECURSIVE FillRest(_, _, _)
FillRest(fieldnames, i, acc) ==
    IF i > Len(fieldnames) THEN acc
    ELSE FillRest(fieldnames, i + 1, DictSet(acc, fieldnames[i], PyNone))

\* One row of csv.DictReader: surplus fields go under the key None as a list,
\* missing fields are None.
DictReaderRow(fieldnames, row) ==
    LET d == ZipDict(fieldnames, row, 1, <<>>)
        lf == Len(fieldnames)
        lr == Len(row)
    IN  IF lf < lr
        THEN PyDict(DictSet(d, NoneKey,
                PyList([i \in 1..(lr - lf) |-> PyStr(row[lf + i])])))
        ELSE IF lf > lr THEN PyDict(FillRest(fieldnames, lr + 1, d))
        ELSE PyDict(d)

\* list(csv.DictReader(f)): the first row holds the field names, empty rows
\* are skipped.
RECURSIVE DictReaderFrom(_, _, _)
DictReaderFrom(fieldnames, rows, i) ==
    IF i > Len(rows) THEN <<>>
    ELSE IF rows[i] = <<>> THEN DictReaderFrom(fieldnames, rows, i + 1)
    ELSE <<DictReaderRow(fieldnames, rows[i])>>
            \o DictReaderFrom(fieldnames, rows, i + 1)

DictReader(rows) ==
    IF rows = <<>> THEN <<>> ELSE DictReaderFrom(rows[1], rows, 2)

\* repr of a list of str, as str(value) gives it for a field that is a list.
RECURSIVE ReprItems(_)
ReprItems(items) ==
    IF items = <<>> THEN <<>>
    ELSE <<"'">> \o items[1].s \o <<"'">>
         \o (IF Len(items) > 1 THEN <<", ">> ELSE <<>>)
         \o ReprItems(Tail(items))

\* The text the csv writer puts in a field: None is the empty string, a str
\* is itself, anything else is str(value).
FieldText(v) ==
    IF v.k = "none" THEN <<>>
    ELSE IF v.k = "str" THEN v.s
    ELSE IF v.k = "list" THEN <<"[">> \o ReprItems(v.items) \o <<"]">>
    ELSE <<"{}">>

\* DictWriter._dict_to_list: raises for a row that is no dict or that has a
\* key outside fieldnames; a missing key is written as restval ''.
RowRaises(fieldnames, row) ==
    \/ row.k # "dict"
    \/ KeySet(row.pairs) \ {fieldnames[i] : i \in DOMAIN fieldnames} # {}

RowFields(fieldnames, row) ==
    [i \in DOMAIN fieldnames |->
        IF fieldnames[i] \in KeySet(row.pairs)
        THEN FieldText(DictGet(row.pairs, fieldnames[i]))
        ELSE <<>>]

\* DictWriter.writerows: the rows written before the first row that raises.
RECURSIVE WrittenRows(_, _, _)
WrittenRows(fieldnames, data, i) ==
    IF i > Len(data) THEN <<>>
    ELSE IF RowRaises(fieldnames, data[i]) THEN <<>>
    ELSE <<RowFields(fieldnames, data[i])>> \o WrittenRows(fieldnames, data, i + 1)

WriterowsRaises(fieldnames, data) ==
    \E i \in DOMAIN data : RowRaises(fieldnames, data[i])

-----------------------------------------------------------------------------
(* utils/converter.py: the conversion routines *)

\* What a routine hands back: its boolean, the file system it leaves, and the
\* routines that ran, in call order.
Ret(ok, files, ran) == [ok |-> ok, files |-> files, ran |-> ran]

(* The environment of one call.  "fault" is what happens in the step that      *)
(* produces the routine's output, "pre" in the step that produces an           *)
(* intermediate file: "none" (the step works), "early" (it raises before it    *)
(* creates its file: an unreadable or malformed input) or "late" (it raises    *)
(* after it created its file: a write error).  "svg" is the SVG rasterizer     *)
(* that can be imported.                                                       *)
Faults == {"none", "early", "late"}
SvgLibs == {"cairosvg", "svglib", "none"}
NoFault == [fault |-> "none", pre |-> "none", svg |-> "none"]

\* A routine that hands on what the routine it called returned.
Via(me, r) == Ret(r.ok, r.files, <<me>> \o r.ran)

\* os.remove(p) behind os.path.exists(p)
RemoveIfExists(files, p) == IF Exists(files, p) THEN RemoveFile(files, p) ELSE files

\* A step that decodes its input with a library and encodes it to path `out`.
LibraryStep(files, out, fault, routine) ==
    IF fault = "early" THEN [ok |-> FALSE, files |-> files]
    ELSE IF fault = "late"
         THEN [ok |-> FALSE, files |-> WriteFile(files, out, Partial(routine))]
    ELSE [ok |-> TRUE, files |-> WriteFile(files, out, Made(routine))]

\* A routine that is one library step under try/except, behind a capability
\* check.
Routine(available, files, out, fault, routine) ==
    IF ~available THEN Ret(FALSE, files, <<routine>>)
    ELSE LET st == LibraryStep(files, out, fault, routine)
         IN  Ret(st.ok, st.files, <<routine>>)

\* A routine that reads the input as text (errors ignored) and writes text.
TextRoutine(files, input_path, out, fault, routine, content) ==
    IF ~Exists(files, input_path) \/ fault = "early"
    THEN Ret(FALSE, files, <<routine>>)
    ELSE IF fault = "late"
         THEN Ret(FALSE, WriteFile(files, out, Partial(routine)), <<routine>>)
    ELSE Ret(TRUE, WriteFile(files, out, content), <<routine>>)

_convert_to_svg(self, files, input_path, output_path, env) ==
    Routine(self.pil_available, files, output_path, env.fault, "_convert_to_svg")

_convert_from_svg(self, files, input_path, output_path, target_format, env) ==
    LET me == "_convert_from_svg"
        temp_png == Replace(output_path, <<".">> \o target_format, <<".", "png">>)
    IN  IF env.svg = "cairosvg"
        THEN LET png == LibraryStep(files, temp_png, env.pre, me)
             IN  IF ~png.ok THEN Ret(FALSE, png.files, <<me>>)
                 ELSE IF target_format = <<"png">> THEN Ret(TRUE, png.files, <<me>>)
                 ELSE LET st == LibraryStep(png.files, output_path, env.fault, me)
                      IN  IF st.ok
                          THEN Ret(TRUE, RemoveFile(st.files, temp_png), <<me>>)
                          ELSE Ret(FALSE, st.files, <<me>>)
        ELSE IF env.svg = "svglib" /\ env.pre # "early"
        THEN LET st == LibraryStep(files, output_path, env.fault, me)
             IN  Ret(st.ok, st.files, <<me>>)
        ELSE IF self.pil_available
        THEN \* the placeholder: a blank 800x600 image, whatever the input holds
             IF env.fault = "none"
             THEN Ret(TRUE, WriteFile(files, output_path, Made("placeholder")), <<me>>)
             ELSE LET st == LibraryStep(files, output_path, env.fault, me)
                  IN  Ret(FALSE, st.files, <<me>>)
        ELSE Ret(FALSE, files, <<me>>)

_convert_image(self, files, input_path, output_path, target_format, env) ==
    LET me == "_convert_image"
        input_ext == ExtOf(input_path)
    IN  IF target_format = <<"svg">>
        THEN Via(me, _convert_to_svg(self, files, input_path, output_path, env))
        ELSE IF input_ext = <<"svg">>
        THEN Via(me, _convert_from_svg(self, files, input_path, output_path,
                                       target_format, env))
        ELSE Routine(self.pil_available, files, output_path, env.fault, me)

_convert_image_to_pdf_reportlab(self, files, input_path, output_path, env) ==
    Routine(TRUE, files, output_path, env.fault, "_convert_image_to_pdf_reportlab")

_convert_image_to_pdf_pil(self, files, input_path, output_path, env) ==
    Routine(TRUE, files, output_path, env.fault, "_convert_image_to_pdf_pil")

_convert_image_to_pdf(self, files, input_path, output_path, env) ==
    Via("_convert_image_to_pdf",
        IF self.reportlab_available
        THEN _convert_image_to_pdf_reportlab(self, files, input_path, output_path, env)
        ELSE IF self.pil_available
        THEN _convert_image_to_pdf_pil(self, files, input_path, output_path, env)
        ELSE Ret(FALSE, files, <<>>))

_convert_pdf_to_image(self, files, input_path, output_path, target_format, env) ==
    Routine(self.pymupdf_available, files, output_path, env.fault,
            "_convert_pdf_to_image")

_convert_pdf_to_text(self, files, input_path, output_path, fault) ==
    Routine(self.pymupdf_available, files, output_path, fault, "_convert_pdf_to_text")

_convert_pdf_to_docx_with_libraries(self, files, input_path, output_path, env) ==
    Routine(TRUE, files, output_path, env.fault, "_convert_pdf_to_docx_with_libraries")

_convert_pdf_to_docx(self, files, input_path, output_path, env) ==
    LET me == "_convert_pdf_to_docx"
    IN  IF self.pymupdf_available /\ self.docx_available
        THEN Via(me, _convert_pdf_to_docx_with_libraries(self, files, input_path,
                                                         output_path, env))
        ELSE Ret(FALSE, files, <<me>>)

_convert_text_to_pdf_reportlab(self, files, input_path, output_path, fault) ==
    IF ~Exists(files, input_path)
    THEN Ret(FALSE, files, <<"_convert_text_to_pdf_reportlab">>)
    ELSE Routine(TRUE, files, output_path, fault, "_convert_text_to_pdf_reportlab")

_convert_text_to_pdf(self, files, input_path, output_path, fault) ==
    LET me == "_convert_text_to_pdf"
    IN  IF self.reportlab_available
        THEN Via(me, _convert_text_to_pdf_reportlab(self, files, input_path,
                                                    output_path, fault))
        ELSE Ret(FALSE, files, <<me>>)

\* The routine's result once the file at temp is removed if it is there.
Finally(me, temp, r) == Ret(r.ok, RemoveIfExists(r.files, temp), <<me>> \o r.ran)

\* tempfile.NamedTemporaryFile(suffix='.txt', delete=False): a fresh path
\* outside both storage folders.
TempFilePath == <<"tmp", "/", "tmpfile", ".", "txt">>

_convert_docx_to_pdf_reportlab(self, files, input_path, output_path, env) ==
    LET me == "_convert_docx_to_pdf_reportlab"
    IN  IF env.pre = "early" THEN Ret(FALSE, files, <<me>>)
        ELSE IF env.pre = "late"
        THEN \* the write into the temporary file raises: it stays behind
             Ret(FALSE, WriteFile(files, TempFilePath, Partial(me)), <<me>>)
        ELSE Finally(me, TempFilePath,
                     _convert_text_to_pdf_reportlab(
                         self, WriteFile(files, TempFilePath, Made(me)),
                         TempFilePath, output_path, env.fault))

_convert_docx_to_pdf(self, files, input_path, output_path, env) ==
    LET me == "_convert_docx_to_pdf"
    IN  IF self.docx_available /\ self.reportlab_available
        THEN Via(me, _convert_docx_to_pdf_reportlab(self, files, input_path,
                                                    output_path, env))
        ELSE Ret(FALSE, files, <<me>>)

_convert_docx_to_text(self, files, input_path, output_path, env) ==
    Routine(self.docx_available, files, output_path, env.fault, "_convert_docx_to_text")

_convert_text_to_html(self, files, input_path, output_path, fault) ==
    TextRoutine(files, input_path, output_path, fault, "_convert_text_to_html",
                Made("_convert_text_to_html"))

_convert_html_to_text(self, files, input_path, output_path, env) ==
    TextRoutine(files, input_path, output_path, env.fault, "_convert_html_to_text",
                Made("_convert_html_to_text"))

_convert_markdown_to_html(self, files, input_path, output_path, env) ==
    TextRoutine(files, input_path, output_path, env.fault, "_convert_markdown_to_html",
                Made("_convert_markdown_to_html"))

_convert_markdown_to_text(self, files, input_path, output_path, env) ==
    TextRoutine(files, input_path, output_path, env.fault, "_convert_markdown_to_text",
                Made("_convert_markdown_to_text"))

\* Reads the input as text and writes the same text.
_extract_text_to_file(self, files, input_path, output_path, fault) ==
    TextRoutine(files, input_path, output_path, fault, "_extract_text_to_file",
                IF Exists(files, input_path) THEN files[input_path] ELSE Blob)

_convert_to_html(self, files, input_path, output_path, env) ==
    TextRoutine(files, input_path, output_path, env.fault, "_convert_to_html",
                Made("_convert_to_html"))

_convert_document(self, files, input_path, output_path, target_format, env) ==
    LET me == "_convert_document"
        input_ext == ExtOf(input_path)
    IN  Via(me,
            IF input_ext = <<"txt">> /\ target_format = <<"html">>
            THEN _convert_text_to_html(self, files, input_path, output_path, env.fault)
            ELSE IF input_ext = <<"html">> /\ target_format = <<"txt">>
            THEN _convert_html_to_text(self, files, input_path, output_path, env)
            ELSE IF input_ext = <<"md">> /\ target_format = <<"html">>
            THEN _convert_markdown_to_html(self, files, input_path, output_path, env)
            ELSE IF input_ext = <<"md">> /\ target_format = <<"txt">>
            THEN _convert_markdown_to_text(self, files, input_path, output_path, env)
            ELSE IF target_format = <<"txt">>
            THEN _extract_text_to_file(self, files, input_path, output_path, env.fault)
            ELSE IF target_format = <<"html">>
            THEN _convert_to_html(self, files, input_path, output_path, env)
            ELSE Ret(FALSE, files, <<>>))

_convert_csv_to_json(self, files, input_path, output_path, env) ==
    LET me == "_convert_csv_to_json"
    IN  IF ~Exists(files, input_path) \/ env.fault = "early"
        THEN Ret(FALSE, files, <<me>>)
        ELSE IF files[input_path].t # "csv" THEN Ret(FALSE, files, <<me>>)
        ELSE IF env.fault = "late"
        THEN Ret(FALSE, WriteFile(files, output_path, Partial(me)), <<me>>)
        ELSE LET data == DictReader(TextModeRows(files[input_path].rows))
             IN  Ret(TRUE,
                     WriteFile(files, output_path, JsonText(JsonDump(PyList(data)))),
                     <<me>>)

_convert_json_to_csv(self, files, input_path, output_path, env) ==
    LET me == "_convert_json_to_csv"
    IN  IF ~Exists(files, input_path) \/ env.fault = "early"
        THEN Ret(FALSE, files, <<me>>)
        ELSE IF files[input_path].t # "json" THEN Ret(FALSE, files, <<me>>)
        ELSE LET data == JsonLoad(files[input_path].doc)
             IN  IF ~(data.k = "list" /\ Len(data.items) > 0)
                 THEN Ret(FALSE, files, <<me>>)
                 ELSE IF data.items[1].k # "dict"
                 THEN \* data[0].keys() raises before the output is opened
                      Ret(FALSE, files, <<me>>)
                 ELSE IF env.fault = "late"
                 THEN Ret(FALSE, WriteFile(files, output_path, Partial(me)), <<me>>)
                 ELSE LET fieldnames == Keys(data.items[1].pairs)
                          written == <<fieldnames>>
                                        \o WrittenRows(fieldnames, data.items, 1)
                      IN  Ret(~WriterowsRaises(fieldnames, data.items),
                              WriteFile(files, output_path, CsvText(written)),
                              <<me>>)

_convert_json_to_xml(self, files, input_path, output_path, env) ==
    LET me == "_convert_json_to_xml"
    IN  IF ~Exists(files, input_path) THEN Ret(FALSE, files, <<me>>)
        ELSE IF files[input_path].t # "json" THEN Ret(FALSE, files, <<me>>)
        ELSE Routine(TRUE, files, output_path, env.fault, me)

_convert_xml_to_json(self, files, input_path, output_path, env) ==
    LET me == "_convert_xml_to_json"
    IN  IF ~Exists(files, input_path) THEN Ret(FALSE, files, <<me>>)
        ELSE IF files[input_path].t # "xml" THEN Ret(FALSE, files, <<me>>)
        ELSE Routine(TRUE, files, output_path, env.fault, me)

_convert_csv_to_xml(self, files, input_path, output_path, env) ==
    LET me == "_convert_csv_to_xml"
    IN  IF ~Exists(files, input_path) THEN Ret(FALSE, files, <<me>>)
        ELSE IF files[input_path].t # "csv" THEN Ret(FALSE, files, <<me>>)
        ELSE Routine(TRUE, files, output_path, env.fault, me)

_convert_spreadsheet(self, files, input_path, output_path, target_format, env) ==
    LET me == "_convert_spreadsheet"
        input_ext == ExtOf(input_path)
    IN  Via(me,
            IF input_ext = <<"csv">> /\ target_format = <<"json">>
            THEN _convert_csv_to_json(self, files, input_path, output_path, env)
            ELSE IF input_ext = <<"csv">> /\ target_format = <<"xml">>
            THEN _convert_csv_to_xml(self, files, input_path, output_path, env)
            ELSE IF input_ext = <<"json">> /\ target_format = <<"csv">>
            THEN _convert_json_to_csv(self, files, input_path, output_path, env)
            ELSE Ret(FALSE, files, <<>>))

_convert_data_format(self, files, input_path, output_path, target_format, env) ==
    LET me == "_convert_data_format"
        input_ext == ExtOf(input_path)
    IN  Via(me,
            IF input_ext = <<"json">> /\ target_format = <<"xml">>
            THEN _convert_json_to_xml(self, files, input_path, output_path, env)
            ELSE IF input_ext = <<"xml">> /\ target_format = <<"json">>
            THEN _convert_xml_to_json(self, files, input_path, output_path, env)
            ELSE IF input_ext = <<"json">> /\ target_format = <<"csv">>
            THEN _convert_json_to_csv(self, files, input_path, output_path, env)
            ELSE IF input_ext = <<"csv">> /\ target_format = <<"json">>
            THEN _convert_csv_to_json(self, files, input_path, output_path, env)
            ELSE Ret(FALSE, files, <<>>))

_convert_code_to_html(self, files, input_path, output_path, env) ==
    TextRoutine(files, input_path, output_path, env.fault, "_convert_code_to_html",
                Made("_convert_code_to_html"))

_convert_code_format(self, files, input_path, output_path, target_format, env) ==
    LET me == "_convert_code_format"
    IN  IF ~Exists(files, input_path) \/ env.pre = "early"
        THEN Ret(FALSE, files, <<me>>)
        ELSE IF target_format = <<"html">>
        THEN Via(me, _convert_code_to_html(self, files, input_path, output_path, env))
        ELSE IF target_format = <<"txt">>
        THEN TextRoutine(files, input_path, output_path, env.fault, me,
                         files[input_path])
        ELSE Ret(FALSE, files, <<me>>)

_convert_csv_to_text(self, files, input_path, output_path, fault) ==
    LET me == "_convert_csv_to_text"
    IN  IF ~Exists(files, input_path) THEN Ret(FALSE, files, <<me>>)
        ELSE Routine(TRUE, files, output_path, fault, me)

\* The second half of a routine that first wrote an intermediate text file:
\* without that file it fails; with it, second (the result of the step from
\* the files the first step left to the output) decides.
AfterTemp(me, t, second) ==
    IF t.ok
    THEN Ret(second.ok, second.files, <<me>> \o t.ran \o second.ran)
    ELSE Ret(FALSE, t.files, <<me>> \o t.ran)

\* As AfterTemp, the intermediate file being removed once the second step has
\* returned, if the file is (still) there.
AfterTempRemoved(me, t, temp, second) ==
    IF t.ok
    THEN Ret(second.ok, RemoveIfExists(second.files, temp),
             <<me>> \o t.ran \o second.ran)
    ELSE Ret(FALSE, t.files, <<me>> \o t.ran)

_convert_spreadsheet_to_pdf(self, files, input_path, output_path, env) ==
    LET me == "_convert_spreadsheet_to_pdf"
        input_ext == ExtOf(input_path)
        temp_txt == Replace(output_path, <<".", "pdf">>, <<".", "txt">>)
    IN  IF input_ext = <<"csv">>
        THEN LET t == _convert_csv_to_text(self, files, input_path, temp_txt, env.pre)
             IN  AfterTempRemoved(
                     me, t, temp_txt,
                     _convert_text_to_pdf(self, t.files, temp_txt, output_path,
                                          env.fault))
        ELSE Ret(FALSE, files, <<me>>)

\* The RTF-like document written from the text, and the removal of the text
\* file, which a failing write never reaches.
_convert_pdf_to_doc(self, files, input_path, output_path, env) ==
    LET me == "_convert_pdf_to_doc"
        temp_txt == Replace(output_path, <<".", "doc">>, <<".", "txt">>)
        t == _convert_pdf_to_text(self, files, input_path, temp_txt, env.pre)
        st == LibraryStep(t.files, output_path, env.fault, me)
    IN  AfterTemp(
            me, t,
            Ret(st.ok,
                IF st.ok THEN RemoveIfExists(st.files, temp_txt) ELSE st.files,
                <<>>))

_convert_to_pdf(self, files, input_path, output_path, env) ==
    LET me == "_convert_to_pdf"
        temp_txt == Replace(output_path, <<".", "pdf">>, <<".", "txt">>)
        t == _extract_text_to_file(self, files, input_path, temp_txt, env.pre)
    IN  AfterTemp(
            me, t,
            _convert_text_to_pdf(self, t.files, temp_txt, output_path, env.fault))

_convert_from_pdf(self, files, input_path, output_path, target_format, env) ==
    LET me == "_convert_from_pdf"
        temp_txt == Replace(output_path, <<".", "html">>, <<".", "txt">>)
    IN  IF target_format = <<"txt">>
        THEN Via(me, _convert_pdf_to_text(self, files, input_path, output_path,
                                          env.fault))
        ELSE IF target_format = <<"html">>
        THEN LET t == _convert_pdf_to_text(self, files, input_path, temp_txt, env.pre)
             IN  AfterTempRemoved(
                     me, t, temp_txt,
                     _convert_text_to_html(self, t.files, temp_txt, output_path,
                                           env.fault))
        ELSE Ret(FALSE, files, <<me>>)

-----------------------------------------------------------------------------
(* utils/converter.py: convert_file and its dispatch chain *)

\* A list of format names, each a one-token string.
Formats(names) == {<<n>> : n \in names}

image_formats ==
    Formats({"jpg", "jpeg", "png", "gif", "bmp", "tiff", "tif", "webp", "ico", "svg"})
document_formats ==
    Formats({"pdf", "txt", "docx", "doc", "rtf", "md", "html", "htm"})
spreadsheet_formats == Formats({"xlsx", "xls", "csv"})
presentation_formats == Formats({"pptx", "ppt"})
data_formats == Formats({"json", "xml"})
code_formats ==
    Formats({"py", "js", "css", "php", "java", "cpp", "c", "cs", "rb", "go", "rs",
             "log", "ini", "cfg", "conf", "yaml", "yml", "toml"})

\* The branch of the if/elif chain that a pair selects: the first whose
\* condition holds, in source order.
DispatchRule(input_ext, target_format) ==
    IF input_ext \in image_formats /\ target_format \in image_formats
    THEN "image_to_image"
    ELSE IF input_ext \in image_formats /\ target_format = <<"pdf">>
    THEN "image_to_pdf"
    ELSE IF input_ext = <<"pdf">> /\ target_format \in image_formats
    THEN "pdf_to_image"
    ELSE IF input_ext = <<"pdf">> /\ target_format = <<"docx">> THEN "pdf_to_docx"
    ELSE IF input_ext = <<"pdf">> /\ target_format = <<"doc">> THEN "pdf_to_doc"
    ELSE IF input_ext = <<"pdf">> /\ target_format = <<"txt">> THEN "pdf_to_txt"
    ELSE IF input_ext = <<"txt">> /\ target_format = <<"pdf">> THEN "txt_to_pdf"
    ELSE IF input_ext = <<"docx">> /\ target_format = <<"pdf">> THEN "docx_to_pdf"
    ELSE IF input_ext = <<"docx">> /\ target_format = <<"txt">> THEN "docx_to_txt"
    ELSE IF input_ext \in document_formats /\ target_format \in document_formats
    THEN "document_to_document"
    ELSE IF input_ext \in spreadsheet_formats /\ target_format \in spreadsheet_formats
    THEN "spreadsheet_to_spreadsheet"
    ELSE IF input_ext \in spreadsheet_formats /\ target_format = <<"pdf">>
    THEN "spreadsheet_to_pdf"
    ELSE IF input_ext \in data_formats /\ target_format \in data_formats
    THEN "data_to_data"
    ELSE IF input_ext \in code_formats /\ target_format \in code_formats
    THEN "code_to_code"
    ELSE IF input_ext \in document_formats /\ target_format = <<"pdf">>
    THEN "document_to_pdf"
    ELSE IF input_ext = <<"pdf">> /\ target_format \in document_formats
    THEN "pdf_to_document"
    ELSE IF input_ext = <<"csv">> /\ target_format = <<"json">> THEN "csv_to_json"
    ELSE IF input_ext = <<"json">> /\ target_format = <<"csv">> THEN "json_to_csv"
    ELSE IF input_ext = <<"json">> /\ target_format = <<"xml">> THEN "json_to_xml"
    ELSE IF input_ext = <<"xml">> /\ target_format = <<"json">> THEN "xml_to_json"
    ELSE "unsupported"

\* The routine each branch calls.
RunRule(rule, self, files, input_path, output_path, target_format, env) ==
    IF rule = "image_to_image"
    THEN _convert_image(self, files, input_path, output_path, target_format, env)
    ELSE IF rule = "image_to_pdf"
    THEN _convert_image_to_pdf(self, files, input_path, output_path, env)
    ELSE IF rule = "pdf_to_image"
    THEN _convert_pdf_to_image(self, files, input_path, output_path, target_format, env)
    ELSE IF rule = "pdf_to_docx"
    THEN _convert_pdf_to_docx(self, files, input_path, output_path, env)
    ELSE IF rule = "pdf_to_doc"
    THEN _convert_pdf_to_doc(self, files, input_path, output_path, env)
    ELSE IF rule = "pdf_to_txt"
    THEN _convert_pdf_to_text(self, files, input_path, output_path, env.fault)
    ELSE IF rule = "txt_to_pdf"
    THEN _convert_text_to_pdf(self, files, input_path, output_path, env.fault)
    ELSE IF rule = "docx_to_pdf"
    THEN _convert_docx_to_pdf(self, files, input_path, output_path, env)
    ELSE IF rule = "docx_to_txt"
    THEN _convert_docx_to_text(self, files, input_path, output_path, env)
    ELSE IF rule = "document_to_document"
    THEN _convert_document(self, files, input_path, output_path, target_format, env)
    ELSE IF rule = "spreadsheet_to_spreadsheet"
    THEN _convert_spreadsheet(self, files, input_path, output_path, target_format, env)
    ELSE IF rule = "spreadsheet_to_pdf"
    THEN _convert_spreadsheet_to_pdf(self, files, input_path, output_path, env)
    ELSE IF rule = "data_to_data"
    THEN _convert_data_format(self, files, input_path, output_path, target_format, env)
    ELSE IF rule = "code_to_code"
    THEN _convert_code_format(self, files, input_path, output_path, target_format, env)
    ELSE IF rule = "document_to_pdf"
    THEN _convert_to_pdf(self, files, input_path, output_path, env)
    ELSE IF rule = "pdf_to_document"
    THEN _convert_from_pdf(self, files, input_path, output_path, target_format, env)
    ELSE IF rule = "csv_to_json"
    THEN _convert_csv_to_json(self, files, input_path, output_path, env)
    ELSE IF rule = "json_to_csv"
    THEN _convert_json_to_csv(self, files, input_path, output_path, env)
    ELSE IF rule = "json_to_xml"
    THEN _convert_json_to_xml(self, files, input_path, output_path, env)
    ELSE _convert_xml_to_json(self, files, input_path, output_path, env)

\* What a call leaves behind: whether it raised to its caller, the value it
\* returned (a dict, as a record), the file system, the branch taken ("none"
\* before the chain is reached) and the routines that ran.
Call(raised, result, files, rule, ran) ==
    [raised |-> raised, result |-> result, files |-> files, rule |-> rule, ran |-> ran]

NoResult == [none |-> TRUE]

\* What convert_file answers once the routine of its branch has returned.
Returned(rule, output_path, r) ==
    IF r.ok
    THEN Call(FALSE, [success |-> TRUE, output_path |-> output_path],
              r.files, rule, r.ran)
    ELSE Call(FALSE, [success |-> FALSE, error |-> <<"Conversion failed">>],
              r.files, rule, r.ran)

\* The body of convert_file's try block; "raised" is an exception leaving it.
convert_file_try(self, files, input_path, output_path, target_format, env) ==
    IF input_path = None
    THEN \* os.path.exists(None): TypeError
         Call(TRUE, NoResult, files, "none", <<>>)
    ELSE IF ~Exists(files, input_path)
    THEN Call(FALSE, [success |-> FALSE, error |-> <<"Input file not found">>],
              files, "none", <<>>)
    ELSE IF target_format = None
    THEN \* None.lower(): AttributeError
         Call(TRUE, NoResult, files, "none", <<>>)
    ELSE LET input_ext == ExtOf(input_path)
             target == Lower(target_format)
             rule == DispatchRule(input_ext, target)
         IN  IF rule = "unsupported"
             THEN Call(FALSE,
                       [success |-> FALSE,
                        error |-> <<"Conversion from ">> \o input_ext \o <<" to ">>
                                    \o target \o <<" not supported">>],
                       files, rule, <<>>)
             ELSE Returned(rule, output_path,
                           RunRule(rule, self, files, input_path, output_path,
                                   target, env))

\* convert_file: the try block, and the except clause that turns whatever it
\* raises into a failure result.
\* A convert_file without its except clause.
convert_file_uncaught(self, files, input_path, output_path, target_format, env) ==
    convert_file_try(self, files, input_path, output_path, target_format, env)

ExceptConversionError(body) ==
    IF body.raised
    THEN Call(FALSE, [success |-> FALSE, error |-> <<"Conversion error: ">>],
              body.files, body.rule, body.ran)
    ELSE body

convert_file(self, files, input_path, output_path, target_format, env) ==
    ExceptConversionError(
        convert_file_try(self, files, input_path, output_path, target_format, env))

-----------------------------------------------------------------------------
(* app.py: the embedded FileConverter *)

app_image_formats ==
    Formats({"jpg", "jpeg", "png", "gif", "bmp", "tiff", "webp", "ico"})

app_convert_image(self, files, input_file, output_file, target_format, env) ==
    Routine(self.pil_available, files, output_file, env.fault, "convert_image")

app_convert_image_to_pdf(self, files, input_file, output_file, env) ==
    Routine(self.pil_available, files, output_file, env.fault, "convert_image_to_pdf")

app_convert_pdf_to_image(self, files, input_file, output_file, target_format, env) ==
    Routine(self.pymupdf_available, files, output_file, env.fault,
            "convert_pdf_to_image")

\* shutil.copy2 under try/except: the input's bytes under the output's name.
app_copy(files, input_file, output_file, env) ==
    IF ~Exists(files, input_file) \/ env.fault = "early"
    THEN Ret(FALSE, files, <<"copy2">>)
    ELSE IF env.fault = "late"
    THEN Ret(FALSE, WriteFile(files, output_file, Partial("copy2")), <<"copy2">>)
    ELSE Ret(TRUE, WriteFile(files, output_file, files[input_file]), <<"copy2">>)

\* app.py's convert_file: returns a boolean and has no try block of its own.
app_convert_file(self, files, input_file, output_file, target_format, env) ==
    IF input_file = None \/ target_format = None
    THEN Call(TRUE, NoResult, files, "none", <<>>)
    ELSE LET input_ext == ExtOf(input_file)
             target == Lower(target_format)
             rule == IF input_ext \in app_image_formats /\ target \in app_image_formats
                     THEN "image_to_image"
                     ELSE IF input_ext \in app_image_formats /\ target = <<"pdf">>
                     THEN "image_to_pdf"
                     ELSE IF input_ext = <<"pdf">> /\ target \in app_image_formats
                     THEN "pdf_to_image"
                     ELSE "unsupported"
             r == IF rule = "image_to_image"
                  THEN app_convert_image(self, files, input_file, output_file, target, env)
                  ELSE IF rule = "image_to_pdf"
                  THEN app_convert_image_to_pdf(self, files, input_file, output_file, env)
                  ELSE IF rule = "pdf_to_image"
                  THEN app_convert_pdf_to_image(self, files, input_file, output_file,
                                                target, env)
                  ELSE app_copy(files, input_file, output_file, env)
         IN  Call(FALSE, r.ok, r.files, rule, r.ran)

-----------------------------------------------------------------------------
(* utils/validators.py *)

ALLOWED_EXTENSIONS ==
    Formats({"jpg", "jpeg", "png", "gif", "bmp", "tiff", "tif", "webp", "ico", "svg",
             "pdf", "txt", "docx", "doc", "rtf", "md", "html", "htm",
             "xlsx", "xls", "csv",
             "pptx", "ppt",
             "json", "xml",
             "zip", "rar", "7z", "tar", "gz",
             "mp3", "wav", "flac", "aac", "ogg",
             "mp4", "avi", "mov", "wmv", "flv", "mkv", "webm",
             "py", "js", "css", "php", "java", "cpp", "c", "cs", "rb", "go", "rs",
             "log", "ini", "cfg", "conf", "yaml", "yml", "toml"})

MAX_FILE_SIZES ==
    [images |-> 100 * 1024 * 1024, documents |-> 200 * 1024 * 1024,
     spreadsheets |-> 100 * 1024 * 1024, presentations |-> 200 * 1024 * 1024,
     data |-> 50 * 1024 * 1024, archives |-> 500 * 1024 * 1024,
     audio |-> 200 * 1024 * 1024, video |-> 1000 * 1024 * 1024,
     code |-> 10 * 1024 * 1024, default |-> 500 * 1024 * 1024]

archive_formats == Formats({"zip", "rar", "7z", "tar", "gz"})
audio_formats == Formats({"mp3", "wav", "flac", "aac", "ogg"})
video_formats == Formats({"mp4", "avi", "mov", "wmv", "flv", "mkv", "webm"})

_get_max_size_for_format(extension) ==
    IF extension \in image_formats THEN MAX_FILE_SIZES.images
    ELSE IF extension \in document_formats THEN MAX_FILE_SIZES.documents
    ELSE IF extension \in spreadsheet_formats THEN MAX_FILE_SIZES.spreadsheets
    ELSE IF extension \in presentation_formats THEN MAX_FILE_SIZES.presentations
    ELSE IF extension \in data_formats THEN MAX_FILE_SIZES.data
    ELSE IF extension \in archive_formats THEN MAX_FILE_SIZES.archives
    ELSE IF extension \in audio_formats THEN MAX_FILE_SIZES.audio
    ELSE IF extension \in video_formats THEN MAX_FILE_SIZES.video
    ELSE IF extension \in code_formats THEN MAX_FILE_SIZES.code
    ELSE MAX_FILE_SIZES.default

\* A registry that files html under code, where the allow-list's second
\* mention of it stands.
_get_file_category_html_as_code(extension) ==
    IF extension = <<"html">> THEN "code"
    ELSE IF extension \in image_formats THEN "image"
    ELSE IF extension \in document_formats THEN "document"
    ELSE IF extension \in spreadsheet_formats THEN "spreadsheet"
    ELSE IF extension \in presentation_formats THEN "presentation"
    ELSE IF extension \in data_formats THEN "data"
    ELSE IF extension \in archive_formats THEN "archive"
    ELSE IF extension \in audio_formats THEN "audio"
    ELSE IF extension \in video_formats THEN "video"
    ELSE IF extension \in code_formats THEN "code"
    ELSE "unknown"

_get_file_category(extension) ==
    IF extension \in image_formats THEN "image"
    ELSE IF extension \in document_formats THEN "document"
    ELSE IF extension \in spreadsheet_formats THEN "spreadsheet"
    ELSE IF extension \in presentation_formats THEN "presentation"
    ELSE IF extension \in data_formats THEN "data"
    ELSE IF extension \in archive_formats THEN "archive"
    ELSE IF extension \in audio_formats THEN "audio"
    ELSE IF extension \in video_formats THEN "video"
    ELSE IF extension \in code_formats THEN "code"
    ELSE "unknown"

\* _format_size: the unit is floor(log_1024(size)) and the number is carried
\* by its integer part.  size_names ends at GB, which every size below
\* 1024 GB stays within.
_format_size(size_bytes) ==
    IF size_bytes = 0 THEN [number |-> 0, unit |-> "B", spaced |-> FALSE]
    ELSE IF size_bytes < 1024
    THEN [number |-> size_bytes, unit |-> "B", spaced |-> TRUE]
    ELSE IF size_bytes < 1024 * 1024
    THEN [number |-> size_bytes \div 1024, unit |-> "KB", spaced |-> TRUE]
    ELSE IF size_bytes < 1024 * 1024 * 1024
    THEN [number |-> size_bytes \div (1024 * 1024), unit |-> "MB", spaced |-> TRUE]
    ELSE [number |-> size_bytes \div (1024 * 1024 * 1024), unit |-> "GB",
          spaced |-> TRUE]

\* os.path.getsize
GetSize(files, p) == files[p].size

suspicious_patterns ==
    << <<".", ".">>,
       <<".", "cmd", ".">>, <<".", "com", ".">>, <<".", "bat", ".">>,
       <<".", "exe", ".">>, <<".", "dll", ".">>, <<".", "vbs", ".">>,
       <<".", "js", ".">>,
       <<"cmd", ".", "exe">>, <<"command", ".", "com">>, <<"autoexec", ".", "bat">> >>

\* The first pattern of the list that the name contains, 0 when none.
RECURSIVE FirstPattern(_, _)
FirstPattern(filename, i) ==
    IF i > Len(suspicious_patterns) THEN 0
    ELSE IF Contains(filename, suspicious_patterns[i]) THEN i
    ELSE FirstPattern(filename, i + 1)

_validate_security(file_path) ==
    IF Contains(Basename(file_path), <<"NUL">>)
    THEN [valid |-> FALSE, error |-> <<"Security violation">>,
          details |-> <<"Filename contains invalid characters">>]
    ELSE LET filename == Lower(Basename(file_path))
             hit == FirstPattern(filename, 1)
         IN  IF hit # 0
             THEN [valid |-> FALSE, error |-> <<"Security violation">>,
                   details |-> <<"Filename contains suspicious pattern: ">>
                                  \o suspicious_patterns[hit]]
             ELSE [valid |-> TRUE]

\* A validator that looks at the name before it looks at the size.
FirstFailedSecurityFirst(file_ext, file_size, max_size, security_check) ==
    IF file_ext \notin ALLOWED_EXTENSIONS THEN "extension"
    ELSE IF ~security_check.valid THEN "security"
    ELSE IF file_size > max_size THEN "size"
    ELSE "none"

\* A validator whose ceiling is exclusive.
FirstFailedAtCeiling(file_ext, file_size, max_size, security_check) ==
    IF file_ext \notin ALLOWED_EXTENSIONS THEN "extension"
    ELSE IF file_size >= max_size THEN "size"
    ELSE IF ~security_check.valid THEN "security"
    ELSE "none"

\* The checks validate_file makes of an existing file, in the order of its
\* if statements: the first that fails, "none" when all pass.
FirstFailed(file_ext, file_size, max_size, security_check) ==
    IF file_ext \notin ALLOWED_EXTENSIONS THEN "extension"
    ELSE IF file_size > max_size THEN "size"
    ELSE IF ~security_check.valid THEN "security"
    ELSE "none"

\* The body of validate_file's try block.
validate_file_try(files, file_path, original_filename) ==
    IF file_path = None
    THEN \* os.path.exists(None): TypeError
         [raised |-> TRUE, result |-> NoResult]
    ELSE IF ~Exists(files, file_path)
    THEN [raised |-> FALSE,
          result |-> [valid |-> FALSE, error |-> <<"File does not exist">>]]
    ELSE LET file_ext == ExtOf(file_path)
             file_size == GetSize(files, file_path)
             max_size == _get_max_size_for_format(file_ext)
             security_check == _validate_security(file_path)
             failed == FirstFailed(file_ext, file_size, max_size, security_check)
         IN  IF failed = "extension"
             THEN [raised |-> FALSE,
                   result |-> [valid |-> FALSE,
                               error |-> <<"Unsupported file format">>,
                               extension |-> file_ext]]
             ELSE IF failed = "size"
             THEN [raised |-> FALSE,
                   result |-> [valid |-> FALSE, error |-> <<"File too large">>,
                               file_size |-> _format_size(file_size),
                               max_size |-> _format_size(max_size)]]
             ELSE IF failed = "security"
             THEN [raised |-> FALSE, result |-> security_check]
             ELSE [raised |-> FALSE,
                   result |-> [valid |-> TRUE, file_size |-> file_size,
                               file_size_formatted |-> _format_size(file_size),
                               extension |-> file_ext,
                               category |-> _get_file_category(file_ext),
                               max_size |-> _format_size(max_size)]]

\* validate_file: the try block, and the except clause that answers
\* 'Validation error' for whatever it raises.
validate_file(files, file_path, original_filename) ==
    LET body == validate_file_try(files, file_path, original_filename)
    IN  IF body.raised
        THEN [raised |-> FALSE,
              result |-> [valid |-> FALSE, error |-> <<"Validation error">>]]
        ELSE body

-----------------------------------------------------------------------------
(* utils/file_handler.py and the naming of stored files in app.py *)

\* f"{unique_id}_{original_filename}" in the upload folder.
InputPath(original_filename) ==
    PathJoin(UPLOAD_FOLDER, <<"id", "_">> \o original_filename)

\* Path(name).stem: the name without its suffix.
Stem(name) == SubSeq(name, 1, Len(name) - Len(PathSuffix(name)))

\* f"{unique_id}_converted_{Path(original_filename).stem}.{target_format}" in
\* the converted folder.
OutputPath(original_filename, target_format) ==
    PathJoin(CONVERTED_FOLDER,
             <<"id", "_converted_">> \o Stem(original_filename) \o <<".">>
                \o target_format)

\* A path at which nothing is stored.
MissingPath == PathJoin(UPLOAD_FOLDER, <<"gone", ".", "txt">>)

NoOp == [op |-> "none"]

-----------------------------------------------------------------------------
(* The state machine *)

\* The optional libraries found at construction.  PIL is imported
\* unconditionally at the top of utils/converter.py, so an instance exists
\* only where PIL does.
Converters ==
    [image_quality : {85}, image_max_dimension : {2048}, pdf_resolution : {300},
     pil_available : {TRUE}, pymupdf_available : BOOLEAN,
     reportlab_available : BOOLEAN, docx_available : BOOLEAN]

\* What `prev` holds after a step: the latest call of an engine or of the
\* validator before the one the step makes.
Earlier ==
    IF last.op \in {"convert_file", "app_convert_file", "validate_file"}
    THEN last ELSE prev

\* FileHandler.save_uploaded_file: the upload lands in the upload folder.
SaveUploadedFile(filename, content) ==
    /\ fs' = WriteFile(fs, PathJoin(UPLOAD_FOLDER, filename), content)
    /\ last' = [op |-> "save_uploaded_file",
                path |-> PathJoin(UPLOAD_FOLDER, filename)]
    /\ prev' = Earlier
    /\ UNCHANGED <<mgr, conv, now, sweep, req>>

\* FileHandler.delete_file
DeleteFile(file_path) ==
    /\ fs' = IF Exists(fs, file_path) THEN RemoveFile(fs, file_path) ELSE fs
    /\ last' = [op |-> "delete_file", path |-> file_path,
                result |-> Exists(fs, file_path)]
    /\ prev' = Earlier
    /\ UNCHANGED <<mgr, conv, now, sweep, req>>

\* An engine that keeps a per-call setting on the instance.
ConvertedKeepingQuality(op, input_path, output_path, target_format, env, c) ==
    /\ fs' = c.files
    /\ last' = [op |-> op, input_path |-> input_path, output_path |-> output_path,
                target_format |-> target_format, env |-> env, raised |-> c.raised,
                result |-> c.result, rule |-> c.rule, ran |-> c.ran, before |-> fs]
    /\ prev' = Earlier
    /\ conv' = [conv EXCEPT !.image_quality = 75]
    /\ UNCHANGED <<mgr, now, sweep, req>>

\* The effect on the state of a call of a convert_file that came out as c:
\* the files it left, and the record of the call.
Converted(op, input_path, output_path, target_format, env, c) ==
    /\ fs' = c.files
    /\ last' = [op |-> op, input_path |-> input_path, output_path |-> output_path,
                target_format |-> target_format, env |-> env, raised |-> c.raised,
                result |-> c.result, rule |-> c.rule, ran |-> c.ran, before |-> fs]
    /\ prev' = Earlier
    /\ UNCHANGED <<mgr, conv, now, sweep, req>>

\* FileConverter.convert_file of utils/converter.py.  Callers name a fresh
\* output path, distinct from the input's.
ConvertFile(input_path, output_path, target_format, env) ==
    /\ ~Exists(fs, output_path)
    /\ Converted("convert_file", input_path, output_path, target_format, env,
                 convert_file(conv, fs, input_path, output_path, target_format, env))

\* FileConverter.convert_file of app.py, in the same environment.
AppConvertFile(input_file, output_file, target_format, env) ==
    /\ ~Exists(fs, output_file)
    /\ Converted("app_convert_file", input_file, output_file, target_format, env,
                 app_convert_file(conv, fs, input_file, output_file, target_format,
                                  env))

\* FileValidator.validate_file: the call and its record; no file changes.
ValidateFile(file_path, original_filename) ==
    /\ LET v == validate_file(fs, file_path, original_filename)
       IN  last' = [op |-> "validate_file", file_path |-> file_path,
                    original_filename |-> original_filename,
                    raised |-> v.raised, result |-> v.result, before |-> fs]
    /\ prev' = Earlier
    /\ UNCHANGED <<mgr, conv, fs, now, sweep, req>>

-----------------------------------------------------------------------------
(* Spec: one request at a time through the conversion engines *)

\* os.path.getsize reads the size of a stored upload: the upload with its bytes
\* counted.
OfSize(content, size_bytes) == [size |-> size_bytes] @@ content

\* The extensions of uploaded files: every format the engine names, some it
\* does not, one in upper case, and none at all.
SourceExts ==
    image_formats \cup document_formats \cup spreadsheet_formats
        \cup presentation_formats \cup data_formats \cup code_formats
        \cup Formats({"zip", "mp3", "mp4", "exe", "PDF"})

UploadNames == {<<"in", ".">> \o e : e \in SourceExts} \cup {<<"in">>}

\* The target formats a request may name.
TargetFormats == SourceExts \cup {None}

\* [{"a": "1"}, {"a": "2", "z": "3"}]: the second record has a key the first
\* has not.
JsonUnknownKey ==
    JsonText(JArray(<< JObject(<< <<<<"a">>, JString(<<"1">>)>> >>),
                       JObject(<< <<<<"a">>, JString(<<"2">>)>>,
                                  <<<<"z">>, JString(<<"3">>)>> >>) >>))

\* What an uploaded file of a given name may hold: a CSV file is a,b / 1,2;
\* a JSON file is [{"a": "1"}, {"a": "2"}], the list above, {"a": "1"} (not a
\* list), or no JSON at all; an XML file is XML or not.
UploadContents(name) ==
    IF ExtOf(name) = <<"csv">>
    THEN {CsvText(<< <<<<"a">>, <<"b">>>>, <<<<"1">>, <<"2">>>> >>)}
    ELSE IF ExtOf(name) = <<"json">>
    THEN {JsonText(JArray(<< JObject(<< <<<<"a">>, JString(<<"1">>)>> >>),
                             JObject(<< <<<<"a">>, JString(<<"2">>)>> >>) >>)),
          JsonUnknownKey,
          JsonText(JObject(<< <<<<"a">>, JString(<<"1">>)>> >>)),
          Blob}
    ELSE IF ExtOf(name) = <<"xml">> THEN {XmlText, Blob}
    ELSE {Blob}

\* The text file an earlier request for the same upload left in the converted
\* folder: f"{unique_id}_converted_{stem}.txt".
EarlierText == OutputPath(<<"in", ".", "x">>, <<"txt">>)

Init ==
    /\ conv \in Converters
    /\ fs \in {NoFiles, WriteFile(NoFiles, EarlierText, Made("_convert_pdf_to_text"))}
    /\ last = NoOp
    /\ prev = NoOp
    /\ now = 0
    /\ sweep = NoOp
    /\ req = NoOp
    /\ mgr = NoOp

\* An upload arrives, as large as the validator lets a file of its name be.
Upload ==
    /\ DOMAIN fs \subseteq {EarlierText}
    /\ last.op = "none"
    /\ \E name \in UploadNames : \E content \in UploadContents(name) :
          SaveUploadedFile(<<"id", "_">> \o name,
                           OfSize(content, _get_max_size_for_format(ExtOf(name))))

\* The paths a request passes as its input: its upload, a path at which
\* nothing is stored, or None.
InputChoices == (DOMAIN fs \ {EarlierText}) \cup {MissingPath, None}

\* The environments that differ for a call: a call that reaches no routine
\* meets no fault, only the routines with an intermediate file have a "pre"
\* step, and only an SVG input looks for a rasterizer.
EnvsFor(input_path, target_format) ==
    IF input_path = None \/ target_format = None \/ ~Exists(fs, input_path)
    THEN {NoFault}
    ELSE LET input_ext == ExtOf(input_path)
             target == Lower(target_format)
         IN  [fault : Faults,
              pre : IF \/ input_ext \in {<<"pdf">>, <<"docx">>, <<"csv">>, <<"svg">>}
                       \/ input_ext \in code_formats
                    THEN Faults ELSE {"none"},
              svg : IF input_ext = <<"svg">> THEN SvgLibs ELSE {"none"}]

Convert ==
    /\ last.op = "save_uploaded_file"
    /\ \E input_path \in InputChoices : \E target_format \in TargetFormats :
       \E env \in EnvsFor(input_path, target_format) :
          ConvertFile(input_path,
                      OutputPath(<<"in", ".", "x">>, target_format),
                      target_format, env)

AppConvert ==
    /\ last.op = "save_uploaded_file"
    /\ \E input_file \in InputChoices : \E target_format \in TargetFormats :
       \E env \in EnvsFor(input_file, target_format) :
          AppConvertFile(input_file,
                         OutputPath(<<"in", ".", "x">>, target_format),
                         target_format, env)

\* The upload is validated, with or without the name it was declared under.
Validate ==
    /\ last.op = "save_uploaded_file"
    /\ \E file_path \in InputChoices :
       \E original_filename \in {None, <<"in", ".", "txt">>} :
          ValidateFile(file_path, original_filename)

Next == Upload \/ Convert \/ AppConvert \/ Validate

Spec == Init /\ [][Next]_vars

-----------------------------------------------------------------------------
(* SpecValidate: stored uploads and their validation *)

\* The names uploads are stored under: one of each size class, a name without
\* extension, a format outside the allow-list, upper case, names the
\* security patterns match, and a name that climbs out of a directory.
StoredNames ==
    {<<"report", ".", e>> :
        e \in {"txt", "png", "csv", "pptx", "json", "zip", "mp3", "mp4", "py", "exe"}}
        \cup {<<"report">>, <<"Report", ".", "TXT">>, <<"cmd", ".", "exe">>,
              <<"report", ".", "exe", ".", "txt">>, <<"report", ".", ".", "txt">>,
              <<".", ".", "/", "etc", "/", "passwd", ".", "txt">>}

\* The filenames a caller of validate_file declares.
DeclaredNames ==
    {None, <<"report", ".", "txt">>,
     <<".", ".", "/", ".", ".", "/", "etc", "/", "passwd", ".", "txt">>}

\* The sizes a stored file of a given name has: none, the ceiling of its
\* format, and one byte more.
SizesFor(name) ==
    {0, _get_max_size_for_format(ExtOf(name)),
     _get_max_size_for_format(ExtOf(name)) + 1}

InitValidate ==
    /\ conv \in {c \in Converters :
                    c.pymupdf_available /\ c.reportlab_available /\ c.docx_available}
    /\ fs = NoFiles
    /\ last = NoOp
    /\ prev = NoOp
    /\ now = 0
    /\ sweep = NoOp
    /\ req = NoOp
    /\ mgr = NoOp

\* One upload is stored at a time.
Store ==
    /\ fs = NoFiles
    /\ \E name \in StoredNames : \E size_bytes \in SizesFor(name) :
          SaveUploadedFile(name, OfSize(Blob, size_bytes))

\* validate_file is asked about a stored file, or about the file that was
\* just deleted.
Check ==
    \E file_path \in DOMAIN fs \cup (IF last.op = "delete_file" THEN {last.path} ELSE {}) :
    \E original_filename \in DeclaredNames :
          ValidateFile(file_path, original_filename)

Discard == \E file_path \in DOMAIN fs : DeleteFile(file_path)

NextValidate == Store \/ Check \/ Discard

SpecValidate == InitValidate /\ [][NextValidate]_vars

-----------------------------------------------------------------------------
(* SpecRegistry: the category and the size ceiling of an extension *)

\* The two registry functions are asked about an extension: every extension
\* of the allow-list, and some outside it (exe, odt, upper case, none).
Lookup ==
    \E extension \in ALLOWED_EXTENSIONS
                        \cup {<<"exe">>, <<"odt">>, <<"TXT">>, <<>>} :
        /\ last' = [op |-> "lookup", extension |-> extension,
                    category |-> _get_file_category(extension),
                    max_size |-> _get_max_size_for_format(extension)]
        /\ prev' = last
        /\ UNCHANGED <<mgr, conv, fs, now, sweep, req>>

NextRegistry == Lookup

SpecRegistry == InitValidate /\ [][NextRegistry]_vars

-----------------------------------------------------------------------------
(* SpecRoundTrip: a CSV file to JSON and back *)

\* The data rows and the columns of the CSV files.
MaxRows == 2
MaxCols == 2

FieldNames == <<<<"a">>, <<"b">>, <<"c">>, <<"d">>>>

\* The values of a field: empty, digits with a leading zero, and text with a
\* carriage return or a line feed inside (quoted in the file).
FieldValues == {<<>>, <<"0", "1">>, <<"x", "CR", "y">>, <<"x", "LF", "y">>}

\* The CSV files with a header of distinct names and 1..MaxRows data rows,
\* each with as many fields as the header.
CsvFiles ==
    UNION {UNION {{<<SubSeq(FieldNames, 1, cols)>> \o data :
                      data \in [1..rows -> [1..cols -> FieldValues]]} :
                  rows \in 1..MaxRows} :
           cols \in 1..MaxCols}

CsvInput == InputPath(<<"in", ".", "csv">>)
JsonOutput == OutputPath(<<"in", ".", "csv">>, <<"json">>)
CsvOutput == OutputPath(<<"back", ".", "json">>, <<"csv">>)

InitRoundTrip ==
    /\ conv \in {c \in Converters :
                    c.pymupdf_available /\ c.reportlab_available /\ c.docx_available}
    /\ \E rows \in CsvFiles : fs = WriteFile(NoFiles, CsvInput, CsvText(rows))
    /\ last = NoOp
    /\ prev = NoOp
    /\ now = 0
    /\ sweep = NoOp
    /\ req = NoOp
    /\ mgr = NoOp

ToJson ==
    /\ last.op = "none"
    /\ ConvertFile(CsvInput, JsonOutput, <<"json">>, NoFault)

ToCsv ==
    /\ last.op = "convert_file"
    /\ last.output_path = JsonOutput
    /\ ConvertFile(JsonOutput, CsvOutput, <<"csv">>, NoFault)

NextRoundTrip == ToJson \/ ToCsv

SpecRoundTrip == InitRoundTrip /\ [][NextRoundTrip]_vars

-----------------------------------------------------------------------------
(* SpecCleanup: the cleanup cycle of utils/cleanup.py beside a request       *)
(* handler that deletes files with FileHandler.delete_file                   *)

\* The days the clock runs over.
MaxDays == 1

\* CleanupManager.file_retention_time, in seconds.
file_retention_time == 24 * 3600

\* os.path.getmtime reads the time a file was written at: the file with that
\* time kept.
AtTime(content, t) == [mtime |-> t] @@ content

\* A cycle that takes a file of exactly the retention age for expired.
ExpiredAtThreshold(current_time, mtime) ==
    current_time - mtime >= file_retention_time

\* file_age > self.file_retention_time
Expired(current_time, mtime) == current_time - mtime > file_retention_time

\* os.remove without the handler around it: a file that is gone raises.
RemoveStepUncaught(files, file_path) ==
    IF Exists(files, file_path) /\ files[file_path].t # "dir"
    THEN [result |-> TRUE, raised |-> FALSE, files |-> RemoveFile(files, file_path)]
    ELSE [result |-> FALSE, raised |-> TRUE, files |-> files]

\* A removal that reports success and leaves the file where it is.
RemoveStepKeeps(files, file_path) ==
    [result |-> Exists(files, file_path), raised |-> FALSE, files |-> files]

\* os.remove(file_path) inside try / except Exception, as _delete_file_safely
\* and delete_file have it: True when the file was removed, False when
\* os.remove raised (the file is gone, or is a directory).
RemoveStep(files, file_path) ==
    IF Exists(files, file_path) /\ files[file_path].t # "dir"
    THEN [result |-> TRUE, raised |-> FALSE, files |-> RemoveFile(files, file_path)]
    ELSE [result |-> FALSE, raised |-> FALSE, files |-> files]

\* A file is written into the upload folder (an upload) or the converted
\* folder (a conversion's output) under a name not in use, between cycles.
Arrive ==
    /\ sweep.op = "none"
    /\ \E file_path \in {PathJoin(UPLOAD_FOLDER, <<"a", ".", "txt">>),
                         PathJoin(UPLOAD_FOLDER, <<"b", ".", "txt">>),
                         PathJoin(CONVERTED_FOLDER, <<"c", ".", "pdf">>)} :
          /\ ~Exists(fs, file_path)
          /\ fs' = WriteFile(fs, file_path, AtTime(Blob, now))
          /\ last' = [op |-> "write"]
    /\ prev' = NoOp
    /\ UNCHANGED <<mgr, conv, now, sweep, req>>

\* Time passes: a second after the start, then the retention time, day by
\* day, so that files reach the retention age and pass it by a second.  A
\* cycle reads the clock once, at its start, so the clock is moved between
\* cycles.
Tick ==
    /\ sweep.op = "none"
    /\ \E d \in {1, file_retention_time} :
          /\ now + d \in {day * file_retention_time + 1 : day \in 0..MaxDays}
          /\ now' = now + d
    /\ UNCHANGED <<mgr, conv, fs, last, prev, sweep, req>>

\* CleanupManager.cleanup_now, step by step: the call reads the clock; each
\* folder is listed (os.listdir is outside the inner try, so a listing that
\* raises ends the call in the outer handler, which returns 0); each listed
\* file has its modification time read (OSError when it is gone: continue) and
\* goes to _delete_file_safely when expired; the call returns its count.  The
\* two folders exist throughout.
cleanup_now ==
    \/ /\ sweep.op = "none"
       /\ sweep' = [op |-> "cleanup_now", pc |-> "folder", current_time |-> now,
                    deleted_count |-> 0,
                    folders |-> <<UPLOAD_FOLDER, CONVERTED_FOLDER>>,
                    todo |-> {}, file_path |-> None, did |-> <<>>,
                    aborted |-> FALSE,
                    ages |-> [f \in DOMAIN fs |-> now - fs[f].mtime]]
       /\ last' = [op |-> "cleanup_now", pc |-> "called"]
       /\ prev' = IF last.op = "cleanup_now"
                  THEN [op |-> "cleanup_now", aborted |-> last.aborted,
                        old |-> {f \in DOMAIN last.ages :
                                    last.ages[f] > file_retention_time}]
                  ELSE NoOp
       /\ UNCHANGED <<mgr, conv, fs, now, req>>
    \/ /\ sweep.op = "cleanup_now"
       /\ sweep.pc = "folder"
       /\ sweep.folders # <<>>
       /\ \E listed \in BOOLEAN :
             sweep' = IF listed
                      THEN [sweep EXCEPT
                               !.pc = "file",
                               !.folders = Tail(@),
                               !.todo = {f \in DOMAIN fs :
                                            /\ f[1] = Head(sweep.folders)
                                            /\ RFind(f, "/", Len(f)) = 2}]
                      ELSE [sweep EXCEPT !.pc = "except", !.aborted = TRUE]
       /\ UNCHANGED <<mgr, conv, fs, last, prev, now, req>>
    \/ /\ sweep.op = "cleanup_now"
       /\ sweep.pc = "file"
       /\ sweep.todo = {}
       /\ sweep' = [sweep EXCEPT !.pc = "folder"]
       /\ UNCHANGED <<mgr, conv, fs, last, prev, now, req>>
    \/ /\ sweep.op = "cleanup_now"
       /\ sweep.pc = "file"
       /\ \E file_path \in sweep.todo :
             sweep' = IF ~Exists(fs, file_path)
                      THEN [sweep EXCEPT !.todo = @ \ {file_path},
                                         !.did = (file_path :> "gone") @@ @]
                      ELSE IF Expired(sweep.current_time, fs[file_path].mtime)
                      THEN [sweep EXCEPT !.todo = @ \ {file_path},
                                         !.pc = "check",
                                         !.file_path = file_path]
                      ELSE [sweep EXCEPT !.todo = @ \ {file_path},
                                         !.did = (file_path :> "kept") @@ @]
       /\ UNCHANGED <<mgr, conv, fs, last, prev, now, req>>
    \/ /\ sweep.op = "cleanup_now"
       /\ \/ sweep.pc = "folder" /\ sweep.folders = <<>>
          \/ sweep.pc = "except"
       /\ last' = [op |-> "cleanup_now", pc |-> "returned",
                   result |-> IF sweep.pc = "except" THEN 0 ELSE sweep.deleted_count,
                   did |-> sweep.did, aborted |-> sweep.aborted,
                   ages |-> sweep.ages, left |-> DOMAIN sweep.ages \cap DOMAIN fs]
       /\ sweep' = NoOp
       /\ req' = IF req.op = "delete_file" /\ req.pc = "done" THEN NoOp ELSE req
       /\ UNCHANGED <<mgr, conv, fs, prev, now>>

\* CleanupManager._delete_file_safely, called by the cycle: the test of line
\* 77, then the removal.  An exception leaving it would be an OSError, which
\* the cycle's inner handler takes.
_delete_file_safely ==
    /\ sweep.op = "cleanup_now"
    /\ \/ /\ sweep.pc = "check"
          /\ sweep' = IF Exists(fs, sweep.file_path) /\ fs[sweep.file_path].t # "dir"
                      THEN [sweep EXCEPT !.pc = "remove"]
                      ELSE [sweep EXCEPT
                               !.pc = "file",
                               !.did = (sweep.file_path :> "not_deleted") @@ @]
          /\ UNCHANGED fs
       \/ /\ sweep.pc = "remove"
          /\ LET r == RemoveStep(fs, sweep.file_path)
             IN  /\ fs' = r.files
                 /\ sweep' = [sweep EXCEPT
                                 !.pc = "file",
                                 !.deleted_count = IF r.result THEN @ + 1 ELSE @,
                                 !.did = (sweep.file_path :>
                                            IF r.raised THEN "raised"
                                            ELSE IF r.result THEN "deleted"
                                            ELSE "remove_failed") @@ @]
    /\ UNCHANGED <<mgr, conv, last, prev, now, req>>

\* FileHandler.delete_file in a request handler, step by step: the call, the
\* test of line 39, the removal.  What a call returned is kept while a cycle
\* is in progress.
delete_file ==
    \/ /\ IF req.op = "none" THEN TRUE ELSE req.pc = "done"
       /\ \E file_path \in DOMAIN fs :
             req' = [op |-> "delete_file", pc |-> "check", file_path |-> file_path,
                     result |-> FALSE, raised |-> FALSE]
       /\ UNCHANGED <<mgr, conv, fs, last, prev, now, sweep>>
    \/ /\ req.op = "delete_file"
       /\ req.pc = "check"
       /\ req' = IF Exists(fs, req.file_path) THEN [req EXCEPT !.pc = "remove"]
                 ELSE IF sweep.op = "none" THEN NoOp
                 ELSE [req EXCEPT !.pc = "done"]
       /\ UNCHANGED <<mgr, conv, fs, last, prev, now, sweep>>
    \/ /\ req.op = "delete_file"
       /\ req.pc = "remove"
       /\ LET r == RemoveStep(fs, req.file_path)
          IN  /\ fs' = r.files
              /\ req' = IF sweep.op = "none" /\ ~r.raised THEN NoOp
                         ELSE [req EXCEPT !.pc = "done", !.result = r.result,
                                          !.raised = r.raised]
       /\ UNCHANGED <<mgr, conv, last, prev, now, sweep>>

NextCleanup == Arrive \/ Tick \/ cleanup_now \/ _delete_file_safely \/ delete_file

SpecCleanup == InitValidate /\ [][NextCleanup]_vars

-----------------------------------------------------------------------------
(* app.py: upload_file, one request per worker *)

\* The workers that serve requests side by side.
Workers == {"w1", "w2"}

\* The identifiers uuid4 can return.
Ids == {"id", "jd"}

\* str(uuid.uuid4()): a random 122-bit identifier, taken to be one that no
\* earlier request was given.
uuid4_repeating(used) == Ids

uuid4(used) == Ids \ used

\* werkzeug's secure_filename on the names below: path separators become
\* "_", and dots and underscores at either end are stripped.
secure_filename(filename) ==
    LET flat == [i \in DOMAIN filename |->
                    IF filename[i] = "/" THEN "_" ELSE filename[i]]
        kept == {i \in DOMAIN flat : flat[i] \notin {".", "_"}}
    IN  IF kept = {} THEN <<>>
        ELSE SubSeq(flat, CHOOSE i \in kept : \A j \in kept : i <= j,
                          CHOOSE i \in kept : \A j \in kept : j <= i)

\* '.' in filename and filename.rsplit('.', 1)[1].lower() in ALLOWED_EXTENSIONS,
\* with the set of app.py.
allowed_file(filename) ==
    LET i == RFind(filename, ".", Len(filename))
    IN  /\ i > 0
        /\ Lower(SubSeq(filename, i + 1, Len(filename))) \in
              Formats({"txt", "pdf", "png", "jpg", "jpeg", "gif", "bmp", "tiff",
                       "webp", "ico", "docx", "doc", "md", "html", "rtf", "csv",
                       "json", "xml"})

\* The file names a client may send, and the target formats of the form.
ClientNames ==
    {<<"in", ".", "png">>, <<"in", ".", "txt">>, <<".", ".", "/", "in", ".", "png">>,
     <<"in", ".", "exe">>, <<>>}

FormTargets == {<<"jpg">>, <<"PDF">>, <<"txt">>, <<>>}

\* The identifiers given to the requests so far.
UsedIds == {req[w].unique_id : w \in DOMAIN req \cap Workers} \ {"none"}

\* The paths at which two file systems differ.
Changed(before, after) ==
    {p \in DOMAIN before \cup DOMAIN after :
        IF p \in DOMAIN before /\ p \in DOMAIN after
        THEN before[p] # after[p] ELSE TRUE}

\* A request that returned before it had stored anything.
Redirected(filename, target_format) ==
    [pc |-> "finished", answer |-> "redirect", filename |-> filename,
     target_format |-> target_format, unique_id |-> "none", input_path |-> None,
     output_path |-> None, success |-> FALSE, touched |-> {}]

\* One step of a request: the checks and file.save; convert_file; the answer
\* with its removals.  An exception inside the try block ends the request in
\* the except clause, which removes nothing.
upload_file ==
    /\ \E w \in Workers :
        \/ /\ w \notin DOMAIN req
           /\ \E filename \in ClientNames : \E form \in FormTargets :
              \E fault \in Faults :
                LET target_format == Lower(form)
                IN  IF filename = <<>> \/ target_format = <<>>
                       \/ ~allowed_file(filename)
                    THEN /\ fault = "none"
                         /\ req' = (w :> Redirected(filename, target_format)) @@ req
                         /\ fs' = fs
                    ELSE \E unique_id \in uuid4(UsedIds) :
                         LET original_filename == secure_filename(filename)
                             input_path ==
                                 PathJoin(UPLOAD_FOLDER,
                                          <<unique_id, "_">> \o original_filename)
                             output_path ==
                                 PathJoin(CONVERTED_FOLDER,
                                          <<unique_id, "_converted_">>
                                             \o Stem(original_filename) \o <<".">>
                                             \o target_format)
                             st == LibraryStep(fs, input_path, fault, "save")
                         IN  /\ fs' = st.files
                             /\ req' = (w :> [pc |-> IF st.ok THEN "saved" ELSE "finished",
                                              answer |-> IF st.ok THEN "none" ELSE "error",
                                              filename |-> filename,
                                              target_format |-> target_format,
                                              unique_id |-> unique_id,
                                              input_path |-> input_path,
                                              output_path |-> output_path,
                                              success |-> FALSE,
                                              touched |-> Changed(fs, st.files)]) @@ req
        \/ /\ w \in DOMAIN req
           /\ req[w].pc = "saved"
           /\ \E fault \in Faults :
                LET c == app_convert_file(conv, fs, req[w].input_path,
                                          req[w].output_path, req[w].target_format,
                                          [NoFault EXCEPT !.fault = fault])
                IN  /\ fs' = c.files
                    /\ req' = [req EXCEPT
                                 ![w].pc = IF c.raised THEN "finished" ELSE "converted",
                                 ![w].answer = IF c.raised THEN "error" ELSE "none",
                                 ![w].success = IF c.raised THEN FALSE ELSE c.result,
                                 ![w].touched = @ \cup Changed(fs, c.files)]
        \/ /\ w \in DOMAIN req
           /\ req[w].pc = "converted"
           /\ IF req[w].success /\ Exists(fs, req[w].output_path)
              THEN IF Exists(fs, req[w].input_path)
                   THEN /\ fs' = RemoveFile(fs, req[w].input_path)
                        /\ req' = [req EXCEPT ![w].pc = "finished",
                                              ![w].answer = "success",
                                              ![w].touched = @ \cup {req[w].input_path}]
                   ELSE /\ fs' = fs
                        /\ req' = [req EXCEPT ![w].pc = "finished",
                                              ![w].answer = "error"]
              ELSE /\ fs' = RemoveIfExists(RemoveIfExists(fs, req[w].input_path),
                                           req[w].output_path)
                   /\ req' = [req EXCEPT
                                ![w].pc = "finished",
                                ![w].answer = "failed",
                                ![w].touched =
                                    @ \cup ({req[w].input_path, req[w].output_path}
                                               \cap DOMAIN fs)]
    /\ last' = [op |-> "upload_file"]
    /\ UNCHANGED <<mgr, conv, prev, now, sweep>>

NextUpload == upload_file

SpecUpload == InitValidate /\ [][NextUpload]_vars

-----------------------------------------------------------------------------
(* app.py and run.py: the application process and its cleanup thread *)

\* The application is started: "python app.py" runs the __main__ block, which
\* starts the cleanup thread before app.run; run.py does "from app import
\* app" and app.run, so the __main__ block of app.py is not executed and no
\* thread is started.  No entry point creates a CleanupManager.
Launch ==
    /\ mgr.op = "none"
    /\ \E entry \in {"app.py", "run.py"} :
          mgr' = [op |-> "serving", entry |-> entry,
                  cleanup_thread |-> (entry = "app.py")]
    /\ UNCHANGED <<conv, fs, last, prev, now, sweep, req>>

\* One turn of cleanup_loop: cleanup_old_files removes from both folders the
\* files last modified before current_time - 3600, then the thread sleeps.
cleanup_loop ==
    /\ mgr.op = "serving"
    /\ mgr.cleanup_thread
    /\ LET current_time == now
           cutoff_time == current_time - 3600
       IN  fs' = [f \in {g \in DOMAIN fs : ~(fs[g].mtime < cutoff_time)} |-> fs[f]]
    /\ last' = [op |-> "cleanup_old_files", removed |-> DOMAIN fs \ DOMAIN fs']
    /\ prev' = NoOp
    /\ UNCHANGED <<conv, now, sweep, req, mgr>>

NextServe == Launch \/ Arrive \/ Tick \/ cleanup_loop

\* The thread, once started, is scheduled again and again.
SpecServe == InitValidate /\ [][NextServe]_vars /\ WF_vars(cleanup_loop)

-----------------------------------------------------------------------------
(* utils/converter.py: the document built by PDF to DOCX *)

MaxPages == 3

\* The text of a page, as the paragraphs between its blank lines: no text, a
\* blank paragraph only, one or two paragraphs, a paragraph and a blank one.
PageTexts == {<<>>, <<" ">>, <<"a">>, <<"a", "b">>, <<"a", " ">>}

PdfFiles == UNION {[1..n -> PageTexts] : n \in 1..MaxPages}

\* The loop over the pages from page_num on: for a page with text, its
\* non-blank paragraphs and then, unless it is the last page, a page break;
\* for a page whose text is blank, nothing.
RECURSIVE ProcessPages(_, _)
ProcessPages(doc, page_num) ==
    IF page_num > Len(doc) THEN <<>>
    ELSE LET text == doc[page_num]
             paragraphs == SelectSeq(text, LAMBDA para : para # " ")
             added == [k \in DOMAIN paragraphs |->
                          [kind |-> "paragraph", page |-> page_num,
                           text |-> paragraphs[k]]]
         IN  (IF paragraphs # <<>>
              THEN added \o (IF page_num < Len(doc)
                             THEN <<[kind |-> "page_break", page |-> page_num]>>
                             ELSE <<>>)
              ELSE <<>>)
             \o ProcessPages(doc, page_num + 1)

\* A PDF is converted: the heading, then the pages.
PdfToDocx ==
    /\ \E doc \in PdfFiles :
          last' = [op |-> "_convert_pdf_to_docx_with_libraries", doc |-> doc,
                   document |-> <<[kind |-> "heading", page |-> 0]>>
                                   \o ProcessPages(doc, 1)]
    /\ prev' = NoOp
    /\ UNCHANGED <<conv, fs, now, sweep, req, mgr>>

NextDocx == PdfToDocx

SpecDocx == InitValidate /\ [][NextDocx]_vars

-----------------------------------------------------------------------------
(* utils/converter.py: the page written by code to HTML *)

MaxLen == 3

\* The characters of a source file that matter to HTML, and one that does not.
CodeChars == {"x", "<", ">", "&"}

CodeContents == UNION {[1..n -> CodeChars] : n \in 0..MaxLen}

\* Path(input_path).name of the inputs: a plain name and one with an
\* ampersand.
CodeNames == {<<"in", ".", "py">>, <<"a", "&", "b", ".", "py">>}

\* html_content: the f-string with the file name (twice) and the content put
\* in as they are; the markup of the template is "<head>", "<pre><code>", ...
CodeToHtml ==
    /\ \E name \in CodeNames : \E content \in CodeContents :
          last' = [op |-> "_convert_code_to_html", name |-> name,
                   content |-> content,
                   html_content |->
                       <<"<!DOCTYPE html>", "<html>", "<head>", "<title>", "Code: ">>
                       \o name
                       \o <<"</title>", "</head>", "<body>",
                            "<div class=\"filename\">", "File: ">>
                       \o name
                       \o <<"</div>", "<pre><code>">>
                       \o content
                       \o <<"</code></pre>", "</body>", "</html>">>]
    /\ prev' = NoOp
    /\ UNCHANGED <<conv, fs, now, sweep, req, mgr>>

NextHtml == CodeToHtml

SpecHtml == InitValidate /\ [][NextHtml]_vars

-----------------------------------------------------------------------------
(* utils/cleanup.py: the cleanup thread of a CleanupManager *)

MaxThreads == 3

\* The threads of the program that call the manager.
Callers == {"c1", "c2"}

\* CleanupManager(): not running, no thread.  Threads are numbered in the
\* order of their creation; cleanup_thread is the number of the thread the
\* manager refers to, 0 for None; called is the last call that returned.
InitManager ==
    /\ conv \in {c \in Converters :
                    c.pymupdf_available /\ c.reportlab_available /\ c.docx_available}
    /\ fs = NoFiles
    /\ last = NoOp
    /\ prev = NoOp
    /\ now = 0
    /\ sweep = NoOp
    /\ req = NoOp
    /\ mgr = [op |-> "CleanupManager", running |-> FALSE, cleanup_thread |-> 0,
              threads |-> <<>>, callers |-> [c \in Callers |-> "idle"],
              called |-> "none"]

\* threading.Thread.is_alive of the thread the manager refers to.
is_alive == mgr.cleanup_thread # 0 /\ mgr.threads[mgr.cleanup_thread] # "exited"

\* start_cleanup_thread in two steps: the test of cleanup_thread, and, when
\* there is none alive, running = True with the creation and start of a
\* thread.
start_cleanup_thread ==
    /\ \E c \in Callers :
        \/ /\ mgr.callers[c] = "idle"
           /\ mgr' = IF ~is_alive
                     THEN [mgr EXCEPT !.callers[c] = "starting"]
                     ELSE [mgr EXCEPT !.called = "start_cleanup_thread"]
        \/ /\ mgr.callers[c] = "starting"
           /\ Len(mgr.threads) < MaxThreads
           /\ mgr' = [mgr EXCEPT !.running = TRUE,
                                 !.threads = Append(@, "while"),
                                 !.cleanup_thread = Len(mgr.threads) + 1,
                                 !.callers[c] = "idle",
                                 !.called = "start_cleanup_thread"]
    /\ UNCHANGED <<conv, fs, last, prev, now, sweep, req>>

\* stop_cleanup_thread: running = False, then join(timeout=5) when the thread
\* is alive; join returns when the thread has ended or the five seconds have
\* passed, whichever is first.
stop_cleanup_thread ==
    /\ \E c \in Callers :
        \/ /\ mgr.callers[c] = "idle"
           /\ mgr' = IF is_alive
                     THEN [mgr EXCEPT !.running = FALSE, !.callers[c] = "join"]
                     ELSE [mgr EXCEPT !.running = FALSE,
                                      !.called = "stop_cleanup_thread"]
        \/ /\ mgr.callers[c] = "join"
           /\ mgr' = [mgr EXCEPT !.callers[c] = "idle",
                                 !.called = "stop_cleanup_thread"]
    /\ UNCHANGED <<conv, fs, last, prev, now, sweep, req>>

\* A thread in _cleanup_loop: the test of self.running, a cycle
\* (_cleanup_old_files), the sleep, and the test again.
_cleanup_loop ==
    /\ \E t \in DOMAIN mgr.threads :
        \/ /\ mgr.threads[t] = "while"
           /\ mgr' = [mgr EXCEPT !.threads[t] =
                                     IF mgr.running THEN "cycle" ELSE "exited"]
        \/ /\ mgr.threads[t] = "cycle"
           /\ mgr' = [mgr EXCEPT !.threads[t] = "sleep"]
        \/ /\ mgr.threads[t] = "sleep"
           /\ mgr' = [mgr EXCEPT !.threads[t] = "while"]
    /\ UNCHANGED <<conv, fs, last, prev, now, sweep, req>>

NextThread == start_cleanup_thread \/ stop_cleanup_thread \/ _cleanup_loop

\* Every thread that was started is scheduled again and again.
SpecThread == InitManager /\ [][NextThread]_vars /\ WF_vars(_cleanup_loop)

-----------------------------------------------------------------------------
(* utils/file_handler.py: FileHandler.cleanup_old_files *)

\* A call of cleanup_old_files with the arguments args.  Without an argument the default is read from
\* Config.FILE_RETENTION_TIME, an attribute Config does not have
\* (config.py defines FILE_RETENTION_HOURS only), and the AttributeError
\* leaves the call.  current_time is os.path.getmtime(__file__), the time the
\* file utils/file_handler.py was last written, which is before the program
\* started (0 on the clock); each file whose age from that time exceeds
\* max_age_seconds goes to delete_file, and the deletions are counted.
cleanup_old_files ==
    /\ \E args \in {<<>>, <<3600>>, <<file_retention_time>>} :
          LET ages == [f \in DOMAIN fs |-> now - fs[f].mtime]
          IN  IF args = <<>>
              THEN /\ fs' = fs
                   /\ last' = [op |-> "FileHandler.cleanup_old_files",
                               args |-> args,
                               raised |-> TRUE, ages |-> ages, left |-> DOMAIN fs]
              ELSE LET max_age_seconds == args[1]
                       current_time == 0
                       old == {f \in DOMAIN fs :
                                  current_time - fs[f].mtime > max_age_seconds}
                   IN  /\ fs' = [f \in DOMAIN fs \ old |-> fs[f]]
                       /\ last' = [op |-> "FileHandler.cleanup_old_files",
                                   args |-> args,
                                   raised |-> FALSE, ages |-> ages,
                                   left |-> DOMAIN fs \ old,
                                   deleted_count |-> Cardinality(old)]
    /\ prev' = NoOp
    /\ UNCHANGED <<conv, now, sweep, req, mgr>>

NextHandler == Arrive \/ Tick \/ cleanup_old_files

SpecHandler == InitValidate /\ [][NextHandler]_vars

-----------------------------------------------------------------------------
(* The claims *)

\* The message of convert_file's last branch.
NotSupported(input_path, target_format) ==
    <<"Conversion from ">> \o ExtOf(input_path) \o <<" to ">>
        \o Lower(target_format) \o <<" not supported">>

\* C1: a call of convert_file, of either engine, on a stored input whose
\* (source extension, target format) pair matches none of the engine's
\* dispatch rules answers with a failure (in utils/converter.py one whose
\* reason says that the conversion from the source to the target is not
\* supported), leaves no file at output_path, and so never copies the input
\* there.
C1_UnsupportedPairFails ==
    (/\ last.op \in {"convert_file", "app_convert_file"}
     /\ last.rule = "unsupported"
     /\ Exists(last.before, last.input_path)) =>
        /\ ~Exists(fs, last.output_path)
        /\ IF last.op = "convert_file"
           THEN last.result = [success |-> FALSE,
                               error |-> NotSupported(last.input_path,
                                                      last.target_format)]
           ELSE last.result = FALSE

\* utils/converter.py was asked for zip to mp3 and answered "not supported",
\* writing nothing.
C1_Witness ==
    /\ last.op = "convert_file"
    /\ last.input_path = InputPath(<<"in", ".", "zip">>)
    /\ last.target_format = <<"mp3">>
    /\ last.rule = "unsupported"
    /\ last.result = [success |-> FALSE,
                      error |-> <<"Conversion from ", "zip", " to ", "mp3",
                                  " not supported">>]
    /\ fs = last.before

\* C2: whenever convert_file returns a failure, no file exists at
\* output_path afterwards (the path named no file before the call).
C2_NoOutputAfterFailure ==
    (last.op = "convert_file" /\ ~last.result.success) =>
        ~Exists(fs, last.output_path)

\* JSON to CSV of [{"a": "1"}, {"a": "2", "z": "3"}] with nothing failing
\* around it: the routine ran and convert_file answered with a failure.
C2_Witness ==
    /\ last.op = "convert_file"
    /\ last.env = NoFault
    /\ last.rule = "json_to_csv"
    /\ last.before[last.input_path].t = "json"
    /\ last.before[last.input_path].doc = JsonUnknownKey.doc
    /\ last.result = [success |-> FALSE, error |-> <<"Conversion failed">>]
    /\ ~Exists(last.before, last.output_path)
    /\ Exists(fs, last.output_path)
    /\ fs[last.output_path] = CsvText(<< <<<<"a">>>>, <<<<"1">>>> >>)

\* C3: convert_file and validate_file never raise to their caller: every call
\* returns one tagged result, which for convert_file is either
\* {success: true, output_path} or {success: false, error}, and for
\* validate_file carries valid, with an error when valid is false.
C3_NeverRaises ==
    /\ last.op = "convert_file" =>
          /\ ~last.raised
          /\ \/ /\ DOMAIN last.result = {"success", "output_path"}
                /\ last.result.success = TRUE
             \/ /\ DOMAIN last.result = {"success", "error"}
                /\ last.result.success = FALSE
    /\ last.op = "validate_file" =>
          /\ ~last.raised
          /\ "valid" \in DOMAIN last.result
          /\ last.result.valid \in BOOLEAN
          /\ ~last.result.valid => "error" \in DOMAIN last.result

\* convert_file was called with None as the target format of a stored input,
\* which makes target_format.lower() raise inside the try block.
C3_Witness ==
    /\ last.op = "convert_file"
    /\ last.target_format = None
    /\ Exists(last.before, last.input_path)
    /\ last.result = [success |-> FALSE, error |-> <<"Conversion error: ">>]

\* The pairs with a rule of their own, and the routine of each.
PairRoutine ==
    [p \in {<<"pdf", "docx">>, <<"pdf", "doc">>, <<"pdf", "txt">>, <<"txt", "pdf">>,
            <<"docx", "pdf">>, <<"docx", "txt">>, <<"csv", "json">>,
            <<"json", "csv">>, <<"json", "xml">>, <<"xml", "json">>} |->
        IF p = <<"pdf", "docx">> THEN "_convert_pdf_to_docx"
        ELSE IF p = <<"pdf", "doc">> THEN "_convert_pdf_to_doc"
        ELSE IF p = <<"pdf", "txt">> THEN "_convert_pdf_to_text"
        ELSE IF p = <<"txt", "pdf">> THEN "_convert_text_to_pdf"
        ELSE IF p = <<"docx", "pdf">> THEN "_convert_docx_to_pdf"
        ELSE IF p = <<"docx", "txt">> THEN "_convert_docx_to_text"
        ELSE IF p = <<"csv", "json">> THEN "_convert_csv_to_json"
        ELSE IF p = <<"json", "csv">> THEN "_convert_json_to_csv"
        ELSE IF p = <<"json", "xml">> THEN "_convert_json_to_xml"
        ELSE "_convert_xml_to_json"]

\* The (source extension, target format) pair of a call on a stored input.
PairOf(call) ==
    <<ExtOf(call.input_path)[1], Lower(call.target_format)[1]>>

\* A call of utils/converter.py's convert_file that reached the dispatch.
Dispatched ==
    /\ last.op = "convert_file"
    /\ last.input_path # None
    /\ last.target_format # None
    /\ Exists(last.before, last.input_path)
    /\ ExtOf(last.input_path) # <<>>

\* C4: for each of the ten pairs with a rule of their own, that rule is the
\* one the dispatch takes, and the routine it calls is the pair's own, not a
\* category's.
C4_ExactPairWins ==
    (Dispatched /\ PairOf(last) \in DOMAIN PairRoutine) =>
        /\ last.rule \notin {"image_to_image", "document_to_document",
                             "spreadsheet_to_spreadsheet", "data_to_data",
                             "code_to_code", "document_to_pdf", "pdf_to_document",
                             "spreadsheet_to_pdf", "unsupported"}
        /\ Head(last.ran) = PairRoutine[PairOf(last)]

\* pdf to txt went by its own rule to its own routine.
C4_Witness ==
    /\ Dispatched
    /\ PairOf(last) = <<"pdf", "txt">>
    /\ last.rule = "pdf_to_txt"
    /\ last.ran = <<"_convert_pdf_to_text">>

\* C5: convert_file on a stored, readable input with an extension of the code
\* category and the target html or txt dispatches to the code routine and
\* succeeds.
C5_CodePassthrough ==
    (/\ Dispatched
     /\ ExtOf(last.input_path) \in code_formats
     /\ Lower(last.target_format) \in {<<"html">>, <<"txt">>}
     /\ last.env = NoFault) =>
        /\ last.rule = "code_to_code"
        /\ Head(last.ran) = "_convert_code_format"
        /\ last.result = [success |-> TRUE, output_path |-> last.output_path]

\* A Python source was asked to become HTML, nothing failing around the call.
C5_Witness ==
    /\ Dispatched
    /\ ExtOf(last.input_path) = <<"py">>
    /\ last.target_format = <<"html">>
    /\ last.env = NoFault

\* C6: for each of the six ordered pairs of distinct formats among csv, json
\* and xml, convert_file takes a dispatch rule and runs a data routine, and
\* does not answer that the pair is not supported.
C6_DataPairsDispatch ==
    (/\ Dispatched
     /\ ExtOf(last.input_path) \in Formats({"csv", "json", "xml"})
     /\ Lower(last.target_format) \in Formats({"csv", "json", "xml"})
     /\ ExtOf(last.input_path) # Lower(last.target_format)) =>
        /\ last.rule # "unsupported"
        /\ last.ran # <<>>

\* csv to json was dispatched to its routine.
C6_Witness ==
    /\ Dispatched
    /\ PairOf(last) = <<"csv", "json">>
    /\ last.rule = "csv_to_json"
    /\ last.ran = <<"_convert_csv_to_json">>

\* C7: a CSV file with a header of distinct names and at least one data row,
\* every row as long as the header, converts to JSON and back, both
\* conversions succeed, and the CSV that comes back has the same header and
\* the same rows, every value the same string.
C7_RoundTrip ==
    /\ last.op = "convert_file" => last.result.success
    /\ (last.op = "convert_file" /\ last.output_path = CsvOutput) =>
          /\ fs[CsvOutput].t = "csv"
          /\ fs[CsvOutput].rows = fs[CsvInput].rows

\* A file with a leading zero in a value came back from the round trip.
C7_Witness ==
    /\ last.op = "convert_file"
    /\ last.output_path = CsvOutput
    /\ last.result.success
    /\ fs[CsvInput].rows = << <<<<"a">>>>, << <<"0", "1">> >> >>
    /\ fs[CsvOutput].rows = fs[CsvInput].rows

\* The answer of a validate_file call: "valid", or the error it names.
Answer(call) == IF call.result.valid THEN <<"valid">> ELSE call.result.error

C9_ValidIff ==
    last.op = "validate_file" =>
        LET path == last.file_path
            stored == Exists(last.before, path)
            allowed == ExtOf(path) \in ALLOWED_EXTENSIONS
            ceiling == _get_max_size_for_format(ExtOf(path))
        IN  /\ last.result.valid <=>
                  /\ stored
                  /\ allowed
                  /\ GetSize(last.before, path) <= ceiling
                  /\ _validate_security(path).valid
            /\ (stored /\ allowed /\ GetSize(last.before, path) = ceiling + 1) =>
                  Answer(last) = <<"File too large">>

\* A file of exactly the ceiling of the data formats was found valid.
C9_Witness ==
    /\ last.op = "validate_file"
    /\ Basename(last.file_path) = <<"report", ".", "json">>
    /\ Exists(last.before, last.file_path)
    /\ GetSize(last.before, last.file_path) = MAX_FILE_SIZES.data
    /\ last.result.valid

\* Two calls of validate_file on stored files of the same size under the same
\* declared filename.
SameDeclaration ==
    /\ prev.op = "validate_file"
    /\ last.op = "validate_file"
    /\ Exists(prev.before, prev.file_path)
    /\ Exists(last.before, last.file_path)
    /\ prev.original_filename # None
    /\ prev.original_filename = last.original_filename
    /\ GetSize(prev.before, prev.file_path) = GetSize(last.before, last.file_path)

\* C10: validate_file decides by the declared original filename, not by the
\* storage path: two calls with the same declared filename on files of the
\* same size give the same answer whatever the storage paths' names.
C10_DeclaredNameDecides ==
    SameDeclaration => Answer(prev) = Answer(last)

\* Two files of the same size stored under different names were validated
\* under one declared filename.
C10_Witness ==
    /\ SameDeclaration
    /\ prev.file_path # last.file_path

\* The token of a parent-directory traversal.
Traversal == <<".", ".">>

\* C11: validate_file on an existing file of an allowed format within its
\* size ceiling answers "Security violation" whenever the file's name, as
\* validated or as declared, contains '..' anywhere, its directory components
\* included.
C11_TraversalRejected ==
    (/\ last.op = "validate_file"
     /\ Exists(last.before, last.file_path)
     /\ ExtOf(last.file_path) \in ALLOWED_EXTENSIONS
     /\ GetSize(last.before, last.file_path)
            <= _get_max_size_for_format(ExtOf(last.file_path))
     /\ \/ Contains(last.file_path, Traversal)
        \/ /\ last.original_filename # None
           /\ Contains(last.original_filename, Traversal)) =>
        /\ ~last.result.valid
        /\ Answer(last) = <<"Security violation">>

\* A stored report..txt within its ceiling was refused for its name.
C11_Witness ==
    /\ last.op = "validate_file"
    /\ Exists(last.before, last.file_path)
    /\ Basename(last.file_path) = <<"report", ".", ".", "txt">>
    /\ GetSize(last.before, last.file_path) = 0
    /\ last.result.details
          = <<"Filename contains suspicious pattern: ", ".", ".">>

\* The entry of MAX_FILE_SIZES that belongs to a category.
TableKey ==
    [c \in {"image", "document", "spreadsheet", "presentation", "data",
            "archive", "audio", "video", "code", "unknown"} |->
        IF c = "image" THEN "images"
        ELSE IF c = "document" THEN "documents"
        ELSE IF c = "spreadsheet" THEN "spreadsheets"
        ELSE IF c = "presentation" THEN "presentations"
        ELSE IF c = "archive" THEN "archives"
        ELSE IF c = "unknown" THEN "default"
        ELSE c]

\* The format lists of the registry.
CategoryLists ==
    {image_formats, document_formats, spreadsheet_formats, presentation_formats,
     data_formats, archive_formats, audio_formats, video_formats, code_formats}

\* C12: every extension of the allow-list is in exactly one format list, has
\* a category other than 'unknown' and a ceiling above zero, and its ceiling
\* is the table entry of its category; every extension outside the allow-list
\* is 'unknown' with the default ceiling.
C12_RegistryTotal ==
    last.op = "lookup" =>
        IF last.extension \in ALLOWED_EXTENSIONS
        THEN /\ Cardinality({l \in CategoryLists : last.extension \in l}) = 1
             /\ last.category \in DOMAIN TableKey \ {"unknown"}
             /\ last.max_size > 0
             /\ last.max_size = MAX_FILE_SIZES[TableKey[last.category]]
        ELSE /\ last.category = "unknown"
             /\ last.max_size = MAX_FILE_SIZES.default

\* html, which the allow-list names twice, was found a document with the
\* documents' ceiling, after a format outside the allow-list was found
\* unknown.
C12_Witness ==
    /\ last = [op |-> "lookup", extension |-> <<"html">>, category |-> "document",
               max_size |-> 200 * 1024 * 1024]
    /\ prev = [op |-> "lookup", extension |-> <<"exe">>, category |-> "unknown",
               max_size |-> 500 * 1024 * 1024]

\* A cleanup cycle that has returned.
Swept == last.op = "cleanup_now" /\ last.pc = "returned"

\* The files a returned cycle found older than the retention time when it
\* started.
OldAtStart == {f \in DOMAIN last.ages : last.ages[f] > 24 * 3600}

C15_DeleteRace ==
    (/\ sweep.op = "cleanup_now"
     /\ req.op = "delete_file"
     /\ req.pc = "done"
     /\ req.file_path \in DOMAIN sweep.did
     /\ sweep.did[req.file_path] # "kept") =>
        /\ ~req.raised
        /\ sweep.did[req.file_path] # "raised"
        /\ ~Exists(fs, req.file_path)
        /\ ~(req.result /\ sweep.did[req.file_path] = "deleted")

\* Both had seen the file; the handler removed it, and the cycle's removal
\* found it gone and returned False.
C15_Witness ==
    /\ sweep.op = "cleanup_now"
    /\ req.op = "delete_file"
    /\ req.pc = "done"
    /\ req.result
    /\ req.file_path \in DOMAIN sweep.did
    /\ sweep.did[req.file_path] = "remove_failed"
    /\ sweep.deleted_count = 0
    /\ ~Exists(fs, req.file_path)

\* C16: an error on one file or one folder does not end the cycle: every
\* file that was expired at its start has been examined and is gone when
\* cleanup_now returns, and the number returned is the number of files the
\* cycle deleted.
C16_ErrorsDoNotAbort ==
    Swept =>
        /\ \A f \in OldAtStart : f \notin last.left
        /\ last.result = Cardinality({f \in DOMAIN last.did : last.did[f] = "deleted"})

\* A cycle lost one file to the request handler, went on, deleted another and
\* returned 1.
C16_Witness ==
    /\ Swept
    /\ ~last.aborted
    /\ last.result = 1
    /\ \E f, g \in DOMAIN last.did :
          /\ last.did[f] \in {"gone", "remove_failed"}
          /\ last.did[g] = "deleted"

C18_OnlyOutputTouched ==
    last.op = "convert_file" =>
        \A p \in (DOMAIN fs \cup DOMAIN last.before) \ {last.output_path} :
            /\ p \in DOMAIN fs
            /\ p \in DOMAIN last.before
            /\ fs[p] = last.before[p]

\* A CSV file was converted to PDF while the text file of an earlier request
\* stood at the path the routine uses for its intermediate text: the call
\* succeeded and the earlier file is gone.
C18_Witness ==
    /\ last.op = "convert_file"
    /\ last.result.success
    /\ \E i \in DOMAIN last.ran : last.ran[i] = "_convert_spreadsheet_to_pdf"
    /\ EarlierText \in DOMAIN last.before
    /\ EarlierText # last.output_path
    /\ EarlierText \notin DOMAIN fs

\* The files a call wrote besides its output and that are still there when it
\* has returned: its intermediate files.
TemporaryLeft ==
    {p \in DOMAIN fs \ {last.output_path} :
        IF p \in DOMAIN last.before THEN fs[p] # last.before[p] ELSE TRUE}

\* C19: when convert_file has returned, with success or with failure, no
\* intermediate file that one of its routines wrote exists any more.
C19_TemporaryFilesGone ==
    last.op = "convert_file" => TemporaryLeft = {}

\* A CSV to PDF call wrote its intermediate text, failed in the second step,
\* and the text file is gone.
C19_Witness ==
    /\ last.op = "convert_file"
    /\ ~last.result.success
    /\ \E i \in DOMAIN last.ran : last.ran[i] = "_convert_text_to_pdf"
    /\ last.ran[1] = "_convert_spreadsheet_to_pdf"
    /\ last.env.pre = "none"
    /\ EarlierText \notin DOMAIN last.before
    /\ TemporaryLeft = {}

\* The routine ran in the last call.
Ran(routine) == \E i \in DOMAIN last.ran : last.ran[i] = routine

\* C20: a call whose routine needs a library that is absent returns a
\* failure, without raising and without an output that was not made from the
\* input: an SVG conversion with no SVG rasterizer installed fails, and no
\* successful call leaves the blank placeholder image as its output.
C20_AbsentLibraryFails ==
    last.op = "convert_file" =>
        /\ ~last.raised
        /\ (Ran("_convert_from_svg") /\ last.env.svg = "none") => ~last.result.success
        /\ last.result.success /\ last.output_path \in DOMAIN fs =>
              fs[last.output_path] # Made("placeholder")

\* A PDF to PNG call on an instance without PyMuPDF returned a failure and
\* wrote nothing.
C20_Witness ==
    /\ last.op = "convert_file"
    /\ Ran("_convert_pdf_to_image")
    /\ ~conv.pymupdf_available
    /\ ~last.raised
    /\ ~last.result.success
    /\ fs = last.before

\* The workers whose request stored a file.
Stored == {w \in DOMAIN req \cap Workers : req[w].input_path # None}

\* C21: two upload requests, also with the same client filename and the same
\* target format, have distinct input paths and distinct output paths, neither
\* writes or removes a path of the other, and the stored name is not the
\* client's filename alone.
C21_RequestsApart ==
    /\ \A v \in Stored : \A w \in Stored \ {v} :
          /\ req[v].input_path # req[w].input_path
          /\ req[v].output_path # req[w].output_path
          /\ req[v].touched \cap {req[w].input_path, req[w].output_path} = {}
    /\ \A w \in Stored :
          Basename(req[w].input_path) \notin {req[w].filename,
                                              secure_filename(req[w].filename)}

\* Two requests with the same filename and the same target format have both
\* finished with success.
C21_Witness ==
    /\ Stored = Workers
    /\ req["w1"].filename = req["w2"].filename
    /\ req["w1"].target_format = req["w2"].target_format
    /\ req["w1"].answer = "success"
    /\ req["w2"].answer = "success"
    /\ req["w1"].output_path \in DOMAIN fs
    /\ req["w2"].output_path \in DOMAIN fs

\* C22: when an upload request has finished, its input file is no longer in
\* the upload folder; after a success its output file is in the converted
\* folder; after a failure or an exception neither file is left.
C22_Lifecycle ==
    \A w \in Stored :
        req[w].pc = "finished" =>
            /\ req[w].input_path \notin DOMAIN fs
            /\ req[w].answer = "success" => req[w].output_path \in DOMAIN fs
            /\ req[w].answer # "success" => req[w].output_path \notin DOMAIN fs

\* A request whose conversion failed after writing part of the output has
\* finished, and both files are gone.
C22_Witness ==
    \E w \in Stored :
        /\ req[w].pc = "finished"
        /\ req[w].answer = "failed"
        /\ req[w].output_path \in req[w].touched
        /\ req[w].input_path \notin DOMAIN fs
        /\ req[w].output_path \notin DOMAIN fs

\* The paths at which files arrive.
SweptPaths ==
    {PathJoin(UPLOAD_FOLDER, <<"a", ".", "txt">>),
     PathJoin(UPLOAD_FOLDER, <<"b", ".", "txt">>),
     PathJoin(CONVERTED_FOLDER, <<"c", ".", "pdf">>)}

\* C23: while the application serves requests, a file of the upload or the
\* converted folder that is older than the retention time is eventually
\* deleted by the background cleanup.
C23_ExpiredEventuallyDeleted ==
    \A f \in SweptPaths :
        (/\ mgr.op = "serving"
         /\ f \in DOMAIN fs
         /\ Expired(now, IF f \in DOMAIN fs THEN fs[f].mtime ELSE now))
            ~> (f \notin DOMAIN fs)

\* Started with "python app.py", the cleanup thread removed a file that was
\* older than the retention time.
C23_Witness ==
    /\ mgr.op = "serving"
    /\ mgr.entry = "app.py"
    /\ last.op = "cleanup_old_files"
    /\ last.removed # {}
    /\ now > file_retention_time

\* The positions of the page breaks in the document of the last conversion.
Breaks == {i \in DOMAIN last.document : last.document[i].kind = "page_break"}

\* C24: the document made from a PDF of N pages has exactly N - 1 page
\* breaks, one after each page but the last, whatever pages have no text, and
\* the paragraphs of page i come before the break that ends page i.
C24_BreakBetweenPages ==
    last.op = "_convert_pdf_to_docx_with_libraries" =>
        /\ Cardinality(Breaks) = Len(last.doc) - 1
        /\ \A n \in 1..(Len(last.doc) - 1) :
              \E b \in Breaks :
                 /\ last.document[b].page = n
                 /\ \A i \in DOMAIN last.document :
                       (last.document[i].kind = "paragraph"
                           /\ last.document[i].page = n) => i < b

\* A PDF of three pages, each with text: two breaks, each after the
\* paragraphs of its page.
C24_Witness ==
    /\ last.op = "_convert_pdf_to_docx_with_libraries"
    /\ last.doc = <<<<"a">>, <<"a", "b">>, <<"a">>>>
    /\ Cardinality(Breaks) = 2
    /\ last.document[3].kind = "page_break"
    /\ last.document[6].kind = "page_break"

\* C25: in the page generated from a code file no '<', '>' or '&' of the
\* file's content or of its name stands unescaped.
C25_ContentEscaped ==
    last.op = "_convert_code_to_html" =>
        \A i \in DOMAIN last.html_content :
            last.html_content[i] \notin {"<", ">", "&"}

\* A file without any of the three characters was converted, and the page
\* holds its content between the <code> tags.
C25_Witness ==
    /\ last.op = "_convert_code_to_html"
    /\ last.name = <<"in", ".", "py">>
    /\ last.content = <<"x", "x">>
    /\ SubSeq(last.html_content, 18, 21)
          = <<"<pre><code>", "x", "x", "</code></pre>">>

\* No call of the manager is in progress.
Quiet == \A c \in Callers : mgr.callers[c] = "idle"

\* The threads that have been started and have not ended.
Alive == {t \in DOMAIN mgr.threads : mgr.threads[t] # "exited"}

\* C26: when the last call that returned is start_cleanup_thread and no call
\* is in progress, the running flag is true and the manager's thread is
\* alive.
C26_StartedIsRunning ==
    (Quiet /\ mgr.called = "start_cleanup_thread") => (mgr.running /\ is_alive)

\* After stop_cleanup_thread with no later start the thread has ended.
C26_Witness ==
    /\ Quiet
    /\ mgr.called = "stop_cleanup_thread"
    /\ Len(mgr.threads) = 1
    /\ Alive = {}
    /\ ~mgr.running

\* C28: at most one cleanup thread is alive at any time.
C28_OneThread == Cardinality(Alive) <= 1

\* A second thread was started after the first had ended, and is the only
\* one alive.
C28_Witness ==
    /\ Quiet
    /\ mgr.called = "start_cleanup_thread"
    /\ Len(mgr.threads) = 2
    /\ Alive = {2}
    /\ mgr.running

\* C27: a call of FileHandler.cleanup_old_files does not raise, deletes
\* exactly the files whose age at the call, from the current time to their
\* modification time, is greater than max_age_seconds (the retention time
\* when no argument is given), and returns their number.
C27_DeletesByAge ==
    last.op = "FileHandler.cleanup_old_files" =>
        LET limit == IF last.args = <<>> THEN file_retention_time
                     ELSE last.args[1]
            old == {f \in DOMAIN last.ages : last.ages[f] > limit}
        IN  /\ ~last.raised
            /\ last.left = DOMAIN last.ages \ old
            /\ last.deleted_count = Cardinality(old)

\* A call with max_age_seconds = 3600 while every file is a second old: no
\* file is deleted and 0 is returned.
C27_Witness ==
    /\ last.op = "FileHandler.cleanup_old_files"
    /\ last.args = <<3600>>
    /\ ~last.raised
    /\ DOMAIN last.ages # {}
    /\ \A f \in DOMAIN last.ages : last.ages[f] = 1
    /\ last.left = DOMAIN last.ages
    /\ last.deleted_count = 0

\* The rules of convert_file's dispatch chain, in their order.
ChainRules ==
    <<"image_to_image", "image_to_pdf", "pdf_to_image", "pdf_to_docx", "pdf_to_doc",
      "pdf_to_txt", "txt_to_pdf", "docx_to_pdf", "docx_to_txt",
      "document_to_document", "spreadsheet_to_spreadsheet", "spreadsheet_to_pdf",
      "data_to_data", "code_to_code", "document_to_pdf", "pdf_to_document",
      "csv_to_json", "json_to_csv", "json_to_xml", "xml_to_json">>

\* The rules that some (source extension, target format) pair selects.
SelectedRules ==
    {DispatchRule(e, t) : e \in SourceExts, t \in SourceExts}

\* C29: the chain a call is dispatched through has no dead rule: every rule of
\* it is selected by at least one (source extension, target format) pair; in
\* particular "document to pdf" and "pdf to document" are.
C29_EveryRuleReachable ==
    Dispatched => \A i \in DOMAIN ChainRules : ChainRules[i] \in SelectedRules

\* A call took a cross-format rule that no earlier rule captures: JSON to CSV.
C29_Witness ==
    /\ Dispatched
    /\ PairOf(last) = <<"json", "csv">>
    /\ last.rule = "json_to_csv"
    /\ "json_to_csv" \in SelectedRules
    /\ "document_to_document" \in SelectedRules

\* C30: when convert_file has returned success with an output_path, a file is
\* stored at that path, whatever the output_path: also one that does not end
\* with the extension of the target format, for which the intermediate path
\* derived by replacement is the output_path itself.
C30_SuccessHasOutput ==
    (/\ last.op = "convert_file"
     /\ ~last.raised
     /\ last.result.success)
        => Exists(fs, last.output_path)

\* A conversion through an intermediate text file succeeded with an
\* output_path that ends with the target's extension: the intermediate file
\* is another path, and the output is stored.
C30_Witness ==
    /\ last.op = "convert_file"
    /\ ~last.raised
    /\ last.result.success
    /\ last.rule = "spreadsheet_to_pdf"
    /\ ExtOf(last.output_path) = <<"pdf">>
    /\ Replace(last.output_path, <<".", "pdf">>, <<".", "txt">>) # last.output_path
    /\ Exists(fs, last.output_path)

====
